---------------------------- MODULE Spec2Model ----------------------------
(***************************************************************************)
(* Index model of the local search engine: the two implementations of the  *)
(* Model trait (InMemoryModel and SqliteModel, src/src/model.rs), each     *)
(* driven by any sequence of add_document / remove_document /              *)
(* requires_reindexing / search_query calls, and the process that entry()  *)
(* of src/src/main.rs builds around one Model: the indexer thread, the     *)
(* HTTP server of src/src/server.rs and the mutex they share.              *)
(*                                                                         *)
(* Representation.                                                         *)
(*   - a character is a one-character string, a character sequence (the    *)
(*     Vec<char> of a field or of a query) a tuple of characters, a term a *)
(*     tuple of characters;                                                *)
(*   - a SystemTime is a number of ticks since the UNIX epoch, with        *)
(*     TicksPerSec ticks in a second; as_secs() is the integer division;   *)
(*   - a HashMap is a function whose DOMAIN is the key set;                *)
(*   - an f32 quotient of two small integers is the reduced fraction       *)
(*     <<num, den>> (IEEE division is correctly rounded, so the value      *)
(*     depends on the exact quotient only); the f32 x.ln() is kept         *)
(*     symbolic: the pair <<num, den>> stands for ln(num/den), 0f32 being  *)
(*     ln(1/1);                                                            *)
(*   - a table of the relational store is the set of its rows; DocFreq,   *)
(*     whose term column is UNIQUE, is a function term -> freq;            *)
(*   - the three RefCell caches of SqliteModel are overwritten by          *)
(*     update_cache at the start of every search_query and read only in    *)
(*     the rest of that call: they are the value SqlUpdateCache computes   *)
(*     from the tables, not a part of the state kept between calls.        *)
(* SQLite facts the relational backend rests on: a row inserted in         *)
(* Documents without an id gets max(id) + 1 (1 in an empty table), the id  *)
(* being an INTEGER PRIMARY KEY without AUTOINCREMENT; foreign keys are    *)
(* not enforced (PRAGMA foreign_keys is off by default); a statement that  *)
(* violates a UNIQUE constraint fails alone and leaves the transaction     *)
(* open; BEGIN inside an open transaction fails.                           *)
(***************************************************************************)
EXTENDS Integers, Sequences, FiniteSets, TLC

VARIABLES backend, mem, sql, calls, last, phase, snapshot, lock, idx, srv

vars == <<backend, mem, sql, calls, last, phase, snapshot, lock, idx, srv>>

\* The state of the process around the Model: see the orchestrator below.
orch == <<phase, snapshot, lock, idx, srv>>

---------------------------------------------------------------------------
(* Bounds of the model. *)

\* Largest SystemTime (in ticks) handed to the model.
MaxTime == 2

\* Ticks in one second (the resolution of SystemTime in the model).
TicksPerSec == 2

\* Largest number of add_document and remove_document calls made on the
\* relational backend (its rowids and DocFreq counts are not bounded otherwise).
MaxOps == 3

Paths == {"a.txt", "b.txt"}

\* The path of a file whose name is not valid UTF-8 (the byte ff, then .txt).
NonUtf8Path == "<ff>.txt"

\* The path of a file whose name begins with '.' and is not valid UTF-8
\* (a dot, the byte ff, then .txt).
NonUtf8DotPath == ".<ff>.txt"

\* The paths of a directory whose name begins with '.' and is not valid
\* UTF-8 (a dot, then the byte ff) and of the text file it holds.
NonUtf8DotDirPath == ".<ff>"

NonUtf8DotDirFilePath == ".<ff>/b.txt"

\* The paths with a component that is not valid UTF-8, each with the string
\* path.display() gives for it: U+FFFD in place of the byte ff.
LossyPaths ==
    { <<NonUtf8Path, "<fffd>.txt">>, <<NonUtf8DotPath, ".<fffd>.txt">>,
      <<NonUtf8DotDirPath, ".<fffd>">>, <<NonUtf8DotDirFilePath, ".<fffd>/b.txt">> }

\* Path::to_str(path).is_some(): serde serializes a PathBuf only then.
PathIsUtf8(path) == \A pair \in LossyPaths : pair[1] # path

\* path.display().to_string(): U+FFFD in place of what is not valid UTF-8.
PathDisplay(path) ==
    IF PathIsUtf8(path) THEN path ELSE (CHOOSE pair \in LossyPaths : pair[1] = path)[2]

Times == 0..MaxTime

Fields == {"name", "content"}

\* The character sequences a field can hold.
Contents == { <<"a">>, <<"b", " ", "B">> }

\* HashMap<String, Vec<char>>: every map from a set of fields to contents.
FieldMaps == UNION { [fs -> Contents] : fs \in SUBSET Fields }

\* The documents of the scenarios S1 and S4 of the ranking.
S1a ==
    [path |-> "a.txt",
     fields |-> [name |-> <<"a">>,
                 extension |-> <<"t", "x", "t">>,
                 content |-> <<"t", "h", "e", " ", "q", "u", "i", "c", "k", " ", "b", "r", "o", "w", "n", " ", "f", "o", "x">>]]

S1b ==
    [path |-> "b.txt",
     fields |-> [name |-> <<"b">>,
                 extension |-> <<"t", "x", "t">>,
                 content |-> <<"t", "h", "e", " ", "l", "a", "z", "y", " ", "d", "o", "g">>]]

S4readme ==
    [path |-> "readme.md",
     fields |-> [name |-> <<"r", "e", "a", "d", "m", "e">>,
                 extension |-> <<"m", "d">>,
                 content |-> <<"i", "n", "s", "t", "a", "l", "l", "a", "t", "i", "o", "n", " ", "g", "u", "i", "d", "e">>]]

S4guide ==
    [path |-> "guide.md",
     fields |-> [name |-> <<"g", "u", "i", "d", "e">>,
                 extension |-> <<"m", "d">>,
                 content |-> <<"a", "n", "o", "t", "h", "e", "r", " ", "d", "o", "c", "u", "m", "e", "n", "t">>]]

\* Contents that differ by one occurrence of a term.
SmallContents == { <<"a">>, <<"a", " ", "b">>, <<"a", " ", "a", " ", "b">> }

\* The documents added in the ranking specification.
SearchDocs ==
    {S1a, S1b, S4readme, S4guide}
      \cup { [path |-> p, fields |-> [f \in {"content"} |-> c]] : p \in Paths, c \in SmallContents }

SearchPaths == { d.path : d \in SearchDocs }

QFox == <<"f", "o", "x">>

QThe == <<"t", "h", "e">>

QGuide == <<"g", "u", "i", "d", "e">>

\* The queries of the ranking specification; two of them hold no token.
Queries == { QFox, QThe, QGuide, <<>>, <<" ", " ", " ">>, <<"a">>, <<"a", " ", "b">> }

---------------------------------------------------------------------------
(* Helpers: maps, sums, fractions. *)

EmptyMap == [x \in {} |-> 0]

MapPut(m, k, v) == [x \in (DOMAIN m) \cup {k} |-> IF x = k THEN v ELSE m[x]]

MapDel(m, k) == [x \in (DOMAIN m) \ {k} |-> m[x]]

\* HashMap::get(..).unwrap_or(d)
GetOr(m, k, d) == IF k \in DOMAIN m THEN m[k] ELSE d

Range(s) == { s[i] : i \in DOMAIN s }

RECURSIVE SumFn(_, _)
\* Sum of f[x] over the finite set S.
SumFn(f, S) ==
    IF S = {} THEN 0
    ELSE LET x == CHOOSE y \in S : TRUE IN f[x] + SumFn(f, S \ {x})

Max(S) == CHOOSE x \in S : \A y \in S : y <= x

Abs(n) == IF n < 0 THEN -n ELSE n

RECURSIVE GCD(_, _)
GCD(a, b) == IF b = 0 THEN a ELSE GCD(b, a % b)

\* The quotient n / d (d > 0) as a reduced fraction.
Frac(n, d) ==
    LET g == GCD(Abs(n), d) IN <<n \div g, d \div g>>

\* 0f32, as the logarithm of 1.
ZeroF32 == <<1, 1>>

\* All permutations of the finite set S, as sequences (the orders in which a
\* HashMap may iterate over its keys).
Orders(S) ==
    { o \in [1..Cardinality(S) -> S] : \A i, j \in 1..Cardinality(S) : o[i] = o[j] => i = j }

---------------------------------------------------------------------------
(* Lexer: the tokenizer (skip whitespace; a maximal run of digits; a       *)
(* maximal run of letters, uppercased and stemmed; any other character     *)
(* alone).  The stemmer is applied to the words of a field and of a query  *)
(* alike and keeps the distinct words of the model distinct (words of one  *)
(* or two letters are left unchanged), so a term of the model is the       *)
(* uppercased word.                                                        *)

Lower == <<"a", "b", "c", "d", "e", "f", "g",
          "h", "i", "j", "k", "l", "m", "n", "o", "p", "q", "r",
          "s", "t", "u", "v", "w", "x", "y", "z">>

Capital == <<"A", "B", "C", "D", "E", "F", "G",
            "H", "I", "J", "K", "L", "M", "N", "O", "P", "Q", "R",
            "S", "T", "U", "V", "W", "X", "Y", "Z">>

\* char::to_uppercase on the letters of the model (a capital is left as it is).
Upper == [c \in Range(Lower) \cup Range(Capital) |->
             IF c \in Range(Capital) THEN c
             ELSE Capital[CHOOSE i \in DOMAIN Lower : Lower[i] = c]]

CharClass(c) ==
    IF c = " " THEN "space"
    ELSE IF c \in {"0", "1", "2", "3", "4", "5", "6", "7", "8", "9"} THEN "digit"
    ELSE IF c \in DOMAIN Upper THEN "alpha"
    ELSE "other"

RECURSIVE RunLen(_, _)
\* Length of the maximal prefix of s whose characters are all of class cls.
RunLen(s, cls) ==
    IF s = <<>> \/ CharClass(Head(s)) # cls THEN 0 ELSE 1 + RunLen(Tail(s), cls)

RECURSIVE Lexer(_)
\* The sequence of terms of the character sequence s.
Lexer(s) ==
    LET sp == RunLen(s, "space")
        r  == SubSeq(s, sp + 1, Len(s))
    IN  IF r = <<>> THEN <<>>
        ELSE LET cls == CharClass(Head(r)) IN
             IF cls = "digit" THEN
                 LET n == RunLen(r, "digit")
                 IN  <<SubSeq(r, 1, n)>> \o Lexer(SubSeq(r, n + 1, Len(r)))
             ELSE IF cls = "alpha" THEN
                 LET n == RunLen(r, "alpha")
                 IN  <<[i \in 1..n |-> Upper[r[i]]]>> \o Lexer(SubSeq(r, n + 1, Len(r)))
             ELSE <<<<Head(r)>>>> \o Lexer(Tail(r))

\* The (TermFreq, count) pair add_document builds for one field.
FieldData(content) ==
    LET tokens == Lexer(content)
    IN  [tf  |-> [term \in Range(tokens) |->
                     Cardinality({i \in DOMAIN tokens : tokens[i] = term})],
         len |-> Len(tokens)]

\* unique_terms: the terms of all the fields of a field map.
UniqueTerms(doc_fields) ==
    UNION { DOMAIN doc_fields[f].tf : f \in DOMAIN doc_fields }

\* Every term the model's contents can produce.
Terms == UNION { Range(Lexer(c)) : c \in Contents }

---------------------------------------------------------------------------
(* Memory backend: InMemoryModel. *)

\* InMemoryModel::default(): the empty index.
MemInit ==
    [docs |-> EmptyMap, df |-> EmptyMap, idf_cache |-> EmptyMap,
     avg_field_length |-> EmptyMap]

RECURSIVE MemFieldTotals(_, _, _)
\* field_totals of update_cache: for every document of todo and every field
\* it carries, entry.0 += field_len and entry.1 += 1, starting from acc.
MemFieldTotals(docs, todo, acc) ==
    IF todo = {} THEN acc
    ELSE LET p == CHOOSE q \in todo : TRUE
             doc_fields == docs[p].fields
             acc1 == [f \in (DOMAIN acc) \cup (DOMAIN doc_fields) |->
                         IF f \in DOMAIN doc_fields
                         THEN LET entry == GetOr(acc, f, [total_len |-> 0, doc_count |-> 0])
                              IN  [total_len |-> entry.total_len + doc_fields[f].len,
                                   doc_count |-> entry.doc_count + 1]
                         ELSE acc[f]]
         IN  MemFieldTotals(docs, todo \ {p}, acc1)

\* The avg_field_length map update_cache builds (cleared, then refilled).
MemAvgFieldLength(docs) ==
    LET field_totals == MemFieldTotals(docs, DOMAIN docs, EmptyMap)
    IN  [f \in DOMAIN field_totals |->
            IF field_totals[f].doc_count > 0
            THEN Frac(field_totals[f].total_len, field_totals[f].doc_count)
            ELSE <<0, 1>>]

\* The idf of one term in update_cache: (total_docs / doc_freq).ln(), or 0.
MemIdf(total_docs, doc_freq) ==
    IF doc_freq > 0 THEN Frac(total_docs, doc_freq) ELSE ZeroF32

\* update_cache without avg_field_length.clear(): an entry of a field that no
\* document carries any more survives.
MemUpdateCacheNoClear(m) ==
    LET total_docs == Cardinality(DOMAIN m.docs)
        fresh == MemAvgFieldLength(m.docs)
    IN  [m EXCEPT !.avg_field_length =
                      [f \in (DOMAIN m.avg_field_length) \cup (DOMAIN fresh) |->
                          IF f \in DOMAIN fresh THEN fresh[f] ELSE m.avg_field_length[f]],
                  !.idf_cache = [term \in DOMAIN m.df |-> MemIdf(total_docs, m.df[term])]]

\* InMemoryModel::update_cache
MemUpdateCache(m) ==
    LET total_docs == Cardinality(DOMAIN m.docs)
    IN  [m EXCEPT !.avg_field_length = MemAvgFieldLength(m.docs),
                  !.idf_cache = [term \in DOMAIN m.df |-> MemIdf(total_docs, m.df[term])]]

\* usize::saturating_sub(1)
SaturatingSub1(n) == IF n > 0 THEN n - 1 ELSE 0

\* remove_document without the seen_terms set: one decrement per field in
\* which the term occurs.
MemRemoveDocumentPerField(m, file_path) ==
    IF file_path \in DOMAIN m.docs
    THEN LET doc_fields == m.docs[file_path].fields
             hits(term) == Cardinality({f \in DOMAIN doc_fields : term \in DOMAIN doc_fields[f].tf})
         IN  MemUpdateCache(
                 [m EXCEPT !.docs = MapDel(m.docs, file_path),
                           !.df = [term \in DOMAIN m.df |->
                                      IF m.df[term] > hits(term)
                                      THEN m.df[term] - hits(term) ELSE 0]])
    ELSE MemUpdateCache(m)

\* InMemoryModel::remove_document (always Ok(())).
MemRemoveDocument(m, file_path) ==
    IF file_path \in DOMAIN m.docs
    THEN LET seen_terms == UniqueTerms(m.docs[file_path].fields)
         IN  MemUpdateCache(
                 [m EXCEPT !.docs = MapDel(m.docs, file_path),
                           !.df = [term \in DOMAIN m.df |->
                                      IF term \in seen_terms
                                      THEN SaturatingSub1(m.df[term])
                                      ELSE m.df[term]]])
    ELSE MemUpdateCache(m)

\* InMemoryModel::add_document (always Ok(())).
MemAddDocument(m, file_path, last_modified, fields) ==
    LET m1 == MemRemoveDocument(m, file_path)
        doc_fields == [f \in DOMAIN fields |-> FieldData(fields[f])]
        unique_terms == UniqueTerms(doc_fields)
    IN  MemUpdateCache(
            [m1 EXCEPT !.df = [term \in (DOMAIN m1.df) \cup unique_terms |->
                                  IF term \in unique_terms
                                  THEN GetOr(m1.df, term, 0) + 1
                                  ELSE m1.df[term]],
                       !.docs = MapPut(m1.docs, file_path,
                                       [fields |-> doc_fields,
                                        last_modified |-> last_modified])])

\* InMemoryModel::requires_reindexing (always Ok(bool)).
MemRequiresReindexing(m, file_path, last_modified) ==
    IF file_path \in DOMAIN m.docs
    THEN m.docs[file_path].last_modified < last_modified
    ELSE TRUE

---------------------------------------------------------------------------
(* Relational backend: SqliteModel. *)

\* SystemTime::duration_since(UNIX_EPOCH).as_secs() as i64
AsSecs(last_modified) == last_modified \div TicksPerSec

\* The caches update_cache computes from the tables: COUNT(*) of Documents,
\* AVG(field_term_count) of DocumentField GROUP BY field, and one idf per
\* row of DocFreq.
SqlIdf(total_docs, df) ==
    IF df > 0 THEN Frac(2 * (total_docs - df) + 1, 2 * df + 1) ELSE ZeroF32

\* SqliteModel::update_cache: the values it stores in total_docs_cache, avgdl
\* and idf_cache.
SqlUpdateCache(s) ==
    LET total_docs == Cardinality(s.Documents)
        fields == { r.field : r \in s.DocumentField }
    IN  [total_docs_cache |-> total_docs,
         avgdl |-> [f \in fields |->
                      LET rows == { r \in s.DocumentField : r.field = f }
                      IN  Frac(SumFn([r \in rows |-> r.field_term_count], rows),
                               Cardinality(rows))],
         idf_cache |-> [term \in DOMAIN s.DocFreq |-> SqlIdf(total_docs, s.DocFreq[term])]]

\* SqliteModel::open on a store with no tables yet: the four tables, empty,
\* and no transaction open.
SqlInit ==
    [Documents |-> {}, DocumentField |-> {}, TermFreq |-> {}, DocFreq |-> EmptyMap,
     in_txn |-> FALSE]

\* SqliteModel::remove_document: [ok, st].  One UPDATE DocFreq SET freq =
\* freq - 1 per row of TermFreq of the document (a row per term and field),
\* then the rows of TermFreq and the row of Documents are deleted.
SqlRemoveDocument(s, file_path) ==
    LET found == { d \in s.Documents : d.path = PathDisplay(file_path) }
    IN  IF found = {} THEN [ok |-> TRUE, st |-> s]
        ELSE LET doc_id == (CHOOSE d \in found : TRUE).id
                 term_rows == { r \in s.TermFreq : r.doc_id = doc_id }
             IN  [ok |-> TRUE,
                  st |-> [s EXCEPT
                            !.DocFreq = [term \in DOMAIN s.DocFreq |->
                                            s.DocFreq[term]
                                            - Cardinality({r \in term_rows : r.term = term})],
                            !.TermFreq = s.TermFreq \ term_rows,
                            !.Documents = { d \in s.Documents : d.id # doc_id }]]

\* sqlite3_last_insert_rowid after INSERT INTO Documents without an id.
SqlNextRowid(documents) ==
    IF documents = {} THEN 1 ELSE Max({ d.id : d \in documents }) + 1

\* The rows of tf_rows whose INSERT INTO TermFreq fails on the store s: the
\* table holds a row with their term, doc_id and field (UNIQUE(term, doc_id,
\* field)).
SqlFailingRows(s, tf_rows) ==
    { n \in tf_rows : \E r \in s.TermFreq :
                         r.term = n.term /\ r.doc_id = n.doc_id /\ r.field = n.field }

\* for (term, freq) in tf.iter(): one INSERT INTO TermFreq per term, [ok, st].
\* The first INSERT that violates UNIQUE(term, doc_id, field) ends the loop
\* with Err(()); only the failing statement is undone, so the rows inserted
\* before it stay.  before holds the terms tf.iter() yields before the
\* first term whose INSERT fails.
SqlInsertTerms(s, tf_rows, before) ==
    IF SqlFailingRows(s, tf_rows) # {}
    THEN [ok |-> FALSE,
          st |-> [s EXCEPT !.TermFreq = s.TermFreq \cup
                    { n \in tf_rows \ SqlFailingRows(s, tf_rows) : n.term \in before }]]
    ELSE [ok |-> TRUE, st |-> [s EXCEPT !.TermFreq = s.TermFreq \cup tf_rows]]

\* One iteration of the loop of add_document over the fields: INSERT INTO
\* DocumentField, which fails on UNIQUE(doc_id, field), then the rows of
\* TermFreq.  fd is the tf and count of the field.
SqlInsertField(s, doc_id, field, fd, before) ==
    IF \E r \in s.DocumentField : r.doc_id = doc_id /\ r.field = field
    THEN [ok |-> FALSE, st |-> s]
    ELSE SqlInsertTerms([s EXCEPT !.DocumentField = s.DocumentField \cup
                            {[doc_id |-> doc_id, field |-> field,
                              field_term_count |-> fd.len]}],
                        { [term |-> term, doc_id |-> doc_id, field |-> field,
                           freq |-> fd.tf[term]] : term \in DOMAIN fd.tf },
                        before)

RECURSIVE SqlInsertFields(_, _, _, _, _)
\* The loop goes on with the fields of order after an iteration that gave r,
\* or ends with its Err(()).
SqlInsertRest(r, doc_id, fields, order, before) ==
    IF r.ok THEN SqlInsertFields(r.st, doc_id, fields, order, before) ELSE r

\* The loop of add_document over the fields, in the order the HashMap yields
\* them: [ok, st].
SqlInsertFields(s, doc_id, fields, order, before) ==
    IF order = <<>> THEN [ok |-> TRUE, st |-> s]
    ELSE SqlInsertRest(SqlInsertField(s, doc_id, Head(order),
                                      FieldData(fields[Head(order)]), before),
                       doc_id, fields, Tail(order), before)

\* INSERT INTO Documents, the row getting the rowid doc_id, then the loop
\* over the fields.
SqlInsertDocument(s, doc_id, path, last_modified, fields, order, before) ==
    SqlInsertFields([s EXCEPT !.Documents = s.Documents \cup
                        {[id |-> doc_id, path |-> PathDisplay(path),
                          last_modified |-> AsSecs(last_modified)]}],
                    doc_id, fields, order, before)

\* The loop of add_document over unique_terms (DocFreq of each term is read,
\* 0 when it has no row, and written back one higher), then commit().
SqlCountTerms(s, unique_terms) ==
    [s EXCEPT !.DocFreq = [term \in (DOMAIN s.DocFreq) \cup unique_terms |->
                              IF term \in unique_terms
                              THEN GetOr(s.DocFreq, term, 0) + 1
                              ELSE s.DocFreq[term]],
              !.in_txn = FALSE]

\* add_document after the inserts gave ins: Err(()) by `?`, or DocFreq and
\* the commit.
SqlFinishAdd(ins, unique_terms) ==
    IF ins.ok THEN [ok |-> TRUE, st |-> SqlCountTerms(ins.st, unique_terms)] ELSE ins

\* add_document once begin() and remove_document returned Ok and left s.
SqlAddRemoved(s, path, last_modified, fields, order, before) ==
    SqlFinishAdd(SqlInsertDocument(s, SqlNextRowid(s.Documents), path, last_modified,
                                   fields, order, before),
                 UniqueTerms([f \in DOMAIN fields |-> FieldData(fields[f])]))

\* SqliteModel::add_document: [ok, st].  order is the order in which the
\* fields HashMap is iterated, before the terms of SqlInsertTerms.
SqlAddDocument(s, path, last_modified, fields, order, before) ==
    IF s.in_txn THEN [ok |-> FALSE, st |-> s]
    ELSE SqlAddRemoved(SqlRemoveDocument([s EXCEPT !.in_txn = TRUE], path).st,
                       path, last_modified, fields, order, before)

\* The sets of terms tf.iter() can yield before the first term whose INSERT
\* INTO TermFreq fails in add_document: every set of the terms of that field
\* whose row is not in the table yet; the empty set alone when no INSERT
\* INTO TermFreq fails.
SqlTermsBefore(s, path, fields, order) ==
    LET terms == UniqueTerms([f \in DOMAIN fields |-> FieldData(fields[f])])
        most == SqlAddDocument(s, path, 0, fields, order, terms).st.TermFreq
        least == SqlAddDocument(s, path, 0, fields, order, {}).st.TermFreq
    IN  SUBSET { r.term : r \in most \ least }

\* SqliteModel::begin: BEGIN; is refused inside a transaction.
SqlBeginTxn(s) ==
    IF s.in_txn THEN [ok |-> FALSE, st |-> s]
    ELSE [ok |-> TRUE, st |-> [s EXCEPT !.in_txn = TRUE]]

\* SqliteModel::commit: COMMIT; is refused when no transaction is open.
SqlCommitTxn(s) ==
    IF s.in_txn THEN [ok |-> TRUE, st |-> [s EXCEPT !.in_txn = FALSE]]
    ELSE [ok |-> FALSE, st |-> s]

\* SqliteModel::requires_reindexing (Ok(bool) for a time at or after the epoch).
SqlRequiresReindexing(s, file_path, last_modified) ==
    LET new_ts == AsSecs(last_modified)
        found == { d \in s.Documents : d.path = PathDisplay(file_path) }
    IN  IF found # {} THEN (CHOOSE d \in found : TRUE).last_modified < new_ts
        ELSE TRUE

---------------------------------------------------------------------------
(* Ranking: search_query of the two backends.  The term-frequency part of  *)
(* a score (norm_tf, aggregate_freq, tf_component) is a quotient of small  *)
(* integers and is the exact rational <<num, den>>, den > 0.  A score is   *)
(* a number of ten-thousandths <<n, 10000>>: x.ln() is taken from a table  *)
(* of logarithms in ten-thousandths and the product idf * tf_component is  *)
(* rounded down to that unit.  NaN is <<0, 0>>, the infinities are <<1, 0>> *)
(* and <<-1, 0>>; the logarithm of a negative quotient is NaN.              *)
(* The sums are exact, so the order in which a                             *)
(* HashMap or the rows of a SELECT are visited shows only in the order of  *)
(* equal scores in the result.                                             *)

NaN == <<0, 0>>

\* f32::INFINITY
Inf == <<1, 0>>

\* f32::NEG_INFINITY
NegInf == <<-1, 0>>

IsNaN(x) == x = NaN

IsInf(x) == x[2] = 0 /\ x[1] # 0

Sign(n) == IF n > 0 THEN 1 ELSE IF n < 0 THEN -1 ELSE 0

\* An integer as an f32.
R(n) == <<n, 1>>

\* x + y: the sum of two infinities of opposite sign is NaN.
RAdd(x, y) ==
    IF IsNaN(x) \/ IsNaN(y) THEN NaN
    ELSE IF IsInf(x) /\ IsInf(y) THEN (IF x = y THEN x ELSE NaN)
    ELSE IF IsInf(x) THEN x
    ELSE IF IsInf(y) THEN y
    ELSE Frac(x[1] * y[2] + y[1] * x[2], x[2] * y[2])

RSub(x, y) == RAdd(x, <<-y[1], y[2]>>)

\* x * y: an infinity times 0 is NaN.
RMul(x, y) ==
    IF IsNaN(x) \/ IsNaN(y) THEN NaN
    ELSE IF IsInf(x) \/ IsInf(y) THEN <<Sign(x[1]) * Sign(y[1]), 0>>
    ELSE Frac(x[1] * y[1], x[2] * y[2])

\* x / y: 0 / 0 and a quotient of two infinities are NaN, any other
\* dividend over 0 is an infinity of its sign (a divisor of search_query
\* that is 0 is the result of AVG or of a sum, which is +0.0), and a finite
\* dividend over an infinity is 0.
RDiv(x, y) ==
    IF IsNaN(x) \/ IsNaN(y) \/ (IsInf(x) /\ IsInf(y)) THEN NaN
    ELSE IF IsInf(y) THEN R(0)
    ELSE IF IsInf(x) THEN <<x[1] * (IF y[1] < 0 THEN -1 ELSE 1), 0>>
    ELSE IF y[1] = 0 THEN <<Sign(x[1]), 0>>
    ELSE IF y[1] > 0 THEN Frac(x[1] * y[2], x[2] * y[1])
    ELSE Frac(-(x[1] * y[2]), x[2] * (-y[1]))

\* 10000 * ln(k), rounded, for the integers the quotients of the model hold.
LnTable == [k \in 1..9 |->
    CASE k = 1 -> 0     [] k = 2 -> 6931  [] k = 3 -> 10986 [] k = 4 -> 13863
      [] k = 5 -> 16094 [] k = 6 -> 17918 [] k = 7 -> 19459 [] k = 8 -> 20794
      [] k = 9 -> 21972]

\* 0f32 as a score.
ScoreZero == <<0, 10000>>

\* idf * x as a score, idf being (num / den).ln() for the quotient
\* q = <<num, den>> and x a rational: the logarithm of a negative number is
\* NaN, that of 0 is -inf, that of +inf is +inf.
IdfTimes(q, x) ==
    IF IsNaN(q) \/ IsNaN(x) \/ q[1] < 0 THEN NaN
    ELSE LET idf == IF q[1] = 0 THEN NegInf
                    ELSE IF IsInf(q) THEN Inf
                    ELSE <<LnTable[q[1]] - LnTable[q[2]], 10000>>
         IN  IF IsInf(idf) \/ IsInf(x) THEN <<Sign(idf[1]) * Sign(x[1]), 0>>
             ELSE <<(idf[1] * x[1]) \div x[2], 10000>>

\* score += c
ScoreAdd(x, c) ==
    IF IsNaN(x) \/ IsNaN(c) THEN NaN
    ELSE IF IsInf(x) /\ IsInf(c) THEN (IF x = c THEN x ELSE NaN)
    ELSE IF IsInf(x) THEN x
    ELSE IF IsInf(c) THEN c
    ELSE <<x[1] + c[1], 10000>>

\* x < y on scores; false when either is NaN, as partial_cmp has no order
\* for NaN.
ScoreLess(x, y) ==
    /\ ~IsNaN(x) /\ ~IsNaN(y)
    /\ IF IsInf(x) \/ IsInf(y)
       THEN x # y /\ (x = NegInf \/ y = Inf)
       ELSE x[1] < y[1]

weights_for_fields(field) ==
    IF field = "name" THEN <<2, 1>>
    ELSE IF field = "content" THEN <<1, 1>>
    ELSE IF field = "extension" THEN <<1, 2>>
    ELSE <<1, 1>>

b_for_field(field) == <<3, 4>>

K1 == <<3, 2>>

\* norm_tf = f / (1.0 + b * (field_len / avg_field_len - 1.0))
NormTf(f, field_len, avg_field_len, field) ==
    RDiv(R(f), RAdd(R(1), RMul(b_for_field(field),
                               RSub(RDiv(R(field_len), avg_field_len), R(1)))))

\* tf_component = (x * (K1 + 1.0)) / (x + K1)
TfComponent(x) == RDiv(RMul(x, RAdd(K1, R(1))), RAdd(x, K1))

RECURSIVE MemAggregateFreq(_, _, _, _)
\* aggregate_freq of one token in one document: the sum of weight * norm_tf
\* over the fields of todo in which the token has a frequency other than 0.
MemAggregateFreq(m, doc_fields, token, todo) ==
    IF todo = {} THEN R(0)
    ELSE LET field == CHOOSE x \in todo : TRUE
             f == GetOr(doc_fields[field].tf, token, 0)
             field_len == doc_fields[field].len
             avg_field_len == GetOr(m.avg_field_length, field, R(field_len))
             rest == MemAggregateFreq(m, doc_fields, token, todo \ {field})
         IN  IF f = 0 THEN rest
             ELSE RAdd(rest, RMul(weights_for_fields(field),
                                  NormTf(f, field_len, avg_field_len, field)))

RECURSIVE MemScore(_, _, _)
\* The score of one document: the loop over the tokens of the query.
MemScore(m, doc_fields, tokens) ==
    IF tokens = <<>> THEN ScoreZero
    ELSE LET token == tokens[Len(tokens)]
             before == MemScore(m, doc_fields, SubSeq(tokens, 1, Len(tokens) - 1))
             aggregate_freq == MemAggregateFreq(m, doc_fields, token, DOMAIN doc_fields)
             total_docs == Cardinality(DOMAIN m.docs)
             idf == IF token \in DOMAIN m.idf_cache THEN m.idf_cache[token]
                    ELSE <<total_docs, 1>>
         IN  IF aggregate_freq = R(0) THEN before
             ELSE ScoreAdd(before, IdfTimes(idf, TfComponent(aggregate_freq)))

\* search_query without the early return for a query of no token: every
\* document is pushed with the score 0.
MemSearchScoresNoEarlyReturn(m, query) ==
    [path \in DOMAIN m.docs |-> MemScore(m, m.docs[path].fields, Lexer(query))]

\* InMemoryModel::search_query before the sort: the score pushed for each
\* document whose score is not NaN (no entry at all for an empty query).
MemSearchScores(m, query) ==
    LET tokens == Lexer(query)
        kept == { path \in DOMAIN m.docs : ~IsNaN(MemScore(m, m.docs[path].fields, tokens)) }
    IN  IF tokens = <<>> THEN EmptyMap
        ELSE [path \in kept |-> MemScore(m, m.docs[path].fields, tokens)]

\* The rows of the ranking SELECT: TermFreq joined with Documents, DocFreq and
\* DocumentField, for the terms of the query.
SqlSearchRows(s, tokens) ==
    UNION { { [path |-> d.path, field |-> tr.field, field_length |-> fr.field_term_count,
               tf |-> tr.freq, term |-> tr.term, doc_id |-> tr.doc_id] :
                d \in { x \in s.Documents : x.id = tr.doc_id },
                fr \in { x \in s.DocumentField : x.doc_id = tr.doc_id /\ x.field = tr.field } } :
            tr \in { x \in s.TermFreq : x.term \in Range(tokens) /\ x.term \in DOMAIN s.DocFreq } }

\* score_contribution of one row.
SqlContribution(cache, row) ==
    LET avg_len == GetOr(cache.avgdl, row.field, R(row.field_length))
        norm_tf == NormTf(row.tf, row.field_length, avg_len, row.field)
        weighted_tf == RMul(norm_tf, weights_for_fields(row.field))
        idf == cache.idf_cache[row.term]
    IN  IdfTimes(idf, TfComponent(weighted_tf))

RECURSIVE SqlSumRows(_, _)
\* *scores.entry(doc_path).or_insert(0f32) += score_contribution, over rows.
SqlSumRows(cache, rows) ==
    IF rows = {} THEN ScoreZero
    ELSE LET row == CHOOSE x \in rows : TRUE
         IN  ScoreAdd(SqlSumRows(cache, rows \ {row}), SqlContribution(cache, row))

\* SqliteModel::search_query before the sort: the scores map.
SqlSearchScores(s, query) ==
    LET tokens == Lexer(query)
        cache == SqlUpdateCache(s)
        rows == SqlSearchRows(s, tokens)
    IN  IF tokens = <<>> THEN EmptyMap
        ELSE [path \in { r.path : r \in rows } |->
                 SqlSumRows(cache, { r \in rows : r.path = path })]

\* search_query without the sort: the entries of scores in the order the
\* HashMap yields them.
ResultsInMapOrder(scores) ==
    { [i \in DOMAIN o |-> <<o[i], scores[o[i]]>>] : o \in Orders(DOMAIN scores) }

\* The orders sort_by can leave the entries of scores in: descending by
\* score, equal scores in any order.
SortedResults(scores) ==
    { [i \in DOMAIN o |-> <<o[i], scores[o[i]]>>] :
        o \in { x \in Orders(DOMAIN scores) :
                  \A i, j \in DOMAIN x : i < j => ~ScoreLess(scores[x[i]], scores[x[j]]) } }

\* partial_cmp(..).unwrap() of the relational backend panics when the sort
\* compares a NaN with another score.
SqlSortPanics(scores) ==
    Cardinality(DOMAIN scores) >= 2 /\ \E path \in DOMAIN scores : IsNaN(scores[path])

---------------------------------------------------------------------------
(* The operations of the Model trait on the Model instance entry() built:  *)
(* a SqliteModel with --sqlite, an InMemoryModel otherwise.  The backend   *)
(* that was not selected keeps its initial value.  last records the call   *)
(* that led to the state and what it returned; calls counts the            *)
(* add_document and remove_document calls made on the relational backend.  *)
(* In the specifications of the Model alone the process around it is left  *)
(* out: phase is "model" and the orchestrator variables do not change.     *)

Backends == {"memory", "sqlite"}

\* No snapshot file.
NoSnapshot == [kind |-> "absent", docs |-> EmptyMap, df |-> EmptyMap]

\* Mutex<Box<dyn Model + Send>>: not held, not poisoned.
LockFree == [holder |-> "none", poisoned |-> FALSE]

\* The indexer thread, not spawned.
IdxOff ==
    [pc |-> "off", tree |-> {}, todo |-> {}, cur |-> {}, processed |-> 0, skipped |-> 0,
     writes |-> 0, save_failed |-> FALSE, applied |-> EmptyMap, log |-> {}]

\* No request.  A request is its method, its URL, whether its body is valid
\* UTF-8, and the body as characters.
NoRequest == [method |-> "", url |-> "", utf8 |-> TRUE, query |-> <<>>]

\* The HTTP server, not started.
SrvOff == [pc |-> "off", req |-> NoRequest]

NoOp == [op |-> "none", path |-> "", t |-> 0, fields |-> EmptyMap, res |-> "ok"]

\* Result<(), ()>
Res(ok) == IF ok THEN "ok" ELSE "fail"

Init ==
    /\ backend \in Backends
    /\ mem = MemInit
    /\ sql = SqlInit
    /\ calls = 0
    /\ last = NoOp
    /\ phase = "model"
    /\ snapshot = NoSnapshot
    /\ lock = LockFree
    /\ idx = IdxOff
    /\ srv = SrvOff

\* entry() without --sqlite.
InitMem ==
    /\ backend = "memory"
    /\ mem = MemInit
    /\ sql = SqlInit
    /\ calls = 0
    /\ last = NoOp
    /\ phase = "model"
    /\ snapshot = NoSnapshot
    /\ lock = LockFree
    /\ idx = IdxOff
    /\ srv = SrvOff

\* entry() with --sqlite.
InitSql ==
    /\ backend = "sqlite"
    /\ mem = MemInit
    /\ sql = SqlInit
    /\ calls = 0
    /\ last = NoOp
    /\ phase = "model"
    /\ snapshot = NoSnapshot
    /\ lock = LockFree
    /\ idx = IdxOff
    /\ srv = SrvOff

\* InMemoryModel::add_document
MemAdd(path, t, fields) ==
    /\ backend = "memory"
    /\ mem' = MemAddDocument(mem, path, t, fields)
    /\ last' = [op |-> "add", path |-> path, t |-> t, fields |-> fields, res |-> "ok"]
    /\ UNCHANGED <<backend, sql, calls>>
    /\ UNCHANGED orch

\* InMemoryModel::remove_document
MemRemove(path) ==
    /\ backend = "memory"
    /\ mem' = MemRemoveDocument(mem, path)
    /\ last' = [NoOp EXCEPT !.op = "remove", !.path = path]
    /\ UNCHANGED <<backend, sql, calls>>
    /\ UNCHANGED orch

\* InMemoryModel::requires_reindexing: Ok(bool), the index is not changed.
MemRequires(path, t) ==
    /\ backend = "memory"
    /\ last' = [NoOp EXCEPT !.op = "requires_reindexing", !.path = path, !.t = t,
                            !.res = MemRequiresReindexing(mem, path, t)]
    /\ UNCHANGED <<backend, mem, sql, calls>>
    /\ UNCHANGED orch

\* SqliteModel::add_document
SqlAdd(path, t, fields, order) ==
    /\ backend = "sqlite"
    /\ calls < MaxOps
    /\ calls' = calls + 1
    /\ \E before \in SqlTermsBefore(sql, path, fields, order) :
          LET r == SqlAddDocument(sql, path, t, fields, order, before)
          IN  /\ sql' = r.st
              /\ last' = [op |-> "add", path |-> path, t |-> t, fields |-> fields,
                          res |-> Res(r.ok)]
    /\ UNCHANGED <<backend, mem>>
    /\ UNCHANGED orch

\* SqliteModel::remove_document
SqlRemove(path) ==
    /\ backend = "sqlite"
    /\ calls < MaxOps
    /\ calls' = calls + 1
    /\ LET r == SqlRemoveDocument(sql, path)
       IN  /\ sql' = r.st
           /\ last' = [NoOp EXCEPT !.op = "remove", !.path = path, !.res = Res(r.ok)]
    /\ UNCHANGED <<backend, mem>>
    /\ UNCHANGED orch

\* SqliteModel::begin called by itself (a pub fn; the program calls it from
\* add_document only).
SqlBegin ==
    /\ backend = "sqlite"
    /\ LET r == SqlBeginTxn(sql)
       IN  /\ sql' = r.st
           /\ last' = [NoOp EXCEPT !.op = "begin", !.res = Res(r.ok)]
    /\ UNCHANGED <<backend, mem, calls>>
    /\ UNCHANGED orch

\* SqliteModel::commit called by itself.
SqlCommit ==
    /\ backend = "sqlite"
    /\ LET r == SqlCommitTxn(sql)
       IN  /\ sql' = r.st
           /\ last' = [NoOp EXCEPT !.op = "commit", !.res = Res(r.ok)]
    /\ UNCHANGED <<backend, mem, calls>>
    /\ UNCHANGED orch

\* SqliteModel::requires_reindexing: Ok(bool), the tables are not changed.
SqlRequires(path, t) ==
    /\ backend = "sqlite"
    /\ last' = [NoOp EXCEPT !.op = "requires_reindexing", !.path = path, !.t = t,
                            !.res = SqlRequiresReindexing(sql, path, t)]
    /\ UNCHANGED <<backend, mem, sql, calls>>
    /\ UNCHANGED orch

\* InMemoryModel::search_query: Ok(result), the index is not changed.  last
\* holds the query in fields and, in res, the list returned (panic tells that
\* the call panicked and returned nothing).
MemSearch(query) ==
    /\ backend = "memory"
    /\ \E result \in SortedResults(MemSearchScores(mem, query)) :
          last' = [NoOp EXCEPT !.op = "search", !.fields = query,
                               !.res = [panic |-> FALSE, list |-> result]]
    /\ UNCHANGED <<backend, mem, sql, calls>>
    /\ UNCHANGED orch

\* SqliteModel::search_query: Ok(result), or a panic in the sort; the tables
\* are not changed.
SqlSearch(query) ==
    /\ backend = "sqlite"
    /\ LET scores == SqlSearchScores(sql, query)
       IN  IF SqlSortPanics(scores)
           THEN last' = [NoOp EXCEPT !.op = "search", !.fields = query,
                                     !.res = [panic |-> TRUE, list |-> <<>>]]
           ELSE \E result \in SortedResults(scores) :
                   last' = [NoOp EXCEPT !.op = "search", !.fields = query,
                                        !.res = [panic |-> FALSE, list |-> result]]
    /\ UNCHANGED <<backend, mem, sql, calls>>
    /\ UNCHANGED orch

NextMem ==
    \/ \E path \in Paths, t \in Times, fields \in FieldMaps : MemAdd(path, t, fields)
    \/ \E path \in Paths : MemRemove(path)
    \/ \E path \in Paths, t \in Times : MemRequires(path, t)

NextSql ==
    \/ \E path \in Paths, t \in Times, fields \in FieldMaps :
           \E order \in Orders(DOMAIN fields) : SqlAdd(path, t, fields, order)
    \/ \E path \in Paths : SqlRemove(path)
    \/ \E path \in Paths, t \in Times : SqlRequires(path, t)
    \/ SqlBegin
    \/ SqlCommit

Next == NextMem \/ NextSql

\* Either backend.
Spec == Init /\ [][Next]_vars

\* The calls of the ranking specification: the documents of SearchDocs are
\* added and removed, and the queries of Queries searched, on either backend.
NextSearch ==
    \/ \E doc \in SearchDocs : MemAdd(doc.path, 1, doc.fields)
    \/ \E path \in SearchPaths : MemRemove(path)
    \/ \E query \in Queries : MemSearch(query)
    \/ \E doc \in SearchDocs : \E order \in Orders(DOMAIN doc.fields) :
           SqlAdd(doc.path, 1, doc.fields, order)
    \/ \E path \in SearchPaths : SqlRemove(path)
    \/ \E query \in Queries : SqlSearch(query)
    \/ SqlBegin
    \/ SqlCommit

\* Either backend, with the documents and queries of the ranking.
SpecSearch == Init /\ [][NextSearch]_vars

\* Queries of one and two tokens on the terms of Contents.
FieldQueries == { <<"a">>, <<"b">>, <<"a", " ", "b">> }

\* Documents of no, one and two fields are added and the queries of
\* FieldQueries searched, on either backend.
NextFields ==
    \/ \E path \in Paths, fields \in FieldMaps : MemAdd(path, 1, fields)
    \/ \E query \in FieldQueries : MemSearch(query)
    \/ \E path \in Paths, fields \in FieldMaps :
           \E order \in Orders(DOMAIN fields) : SqlAdd(path, 1, fields, order)
    \/ \E query \in FieldQueries : SqlSearch(query)

\* Either backend, with documents whose fields share terms.
SpecFields == Init /\ [][NextFields]_vars

\* The memory backend alone.
SpecMem == InitMem /\ [][NextMem]_vars

\* The relational backend alone.
SpecSql == InitSql /\ [][NextSql]_vars

---------------------------------------------------------------------------
(* What a caller can observe of the selected backend. *)

\* The paths at which a document is indexed.
IndexedPaths ==
    IF backend = "memory" THEN DOMAIN mem.docs ELSE { d.path : d \in sql.Documents }

\* The number of indexed documents.
DocCount ==
    IF backend = "memory" THEN Cardinality(DOMAIN mem.docs) ELSE Cardinality(sql.Documents)

\* DocumentFrequency[term], an absent entry counted as 0.
DocFreqOf(term) ==
    IF backend = "memory" THEN GetOr(mem.df, term, 0) ELSE GetOr(sql.DocFreq, term, 0)

\* The rows of Documents at a path.
SqlDocsAt(s, path) == { d \in s.Documents : d.path = path }

\* The document the relational store holds for a row of Documents, in the
\* shape of the memory backend: field -> [tf, len].
SqlFieldsOf(s, doc_id) ==
    [f \in { r.field : r \in { x \in s.DocumentField : x.doc_id = doc_id } } |->
        [tf  |-> [term \in { r.term : r \in { x \in s.TermFreq :
                                              x.doc_id = doc_id /\ x.field = f } } |->
                     (CHOOSE r \in s.TermFreq :
                          r.doc_id = doc_id /\ r.field = f /\ r.term = term).freq],
         len |-> (CHOOSE r \in s.DocumentField :
                      r.doc_id = doc_id /\ r.field = f).field_term_count]]

\* The fields of the document indexed at path in the backend state (m, s).
FieldsIn(m, s, path) ==
    IF backend = "memory" THEN m.docs[path].fields
    ELSE SqlFieldsOf(s, (CHOOSE d \in SqlDocsAt(s, path) : TRUE).id)

\* The fields of the document indexed at path (path is indexed).
FieldsAt(path) == FieldsIn(mem, sql, path)

\* The stored last_modified of the document indexed at path in (m, s).
LastModifiedIn(m, s, path) ==
    IF backend = "memory" THEN m.docs[path].last_modified
    ELSE (CHOOSE d \in SqlDocsAt(s, path) : TRUE).last_modified

\* DocumentFrequency[term] in (m, s), an absent entry counted as 0.
DocFreqIn(m, s, term) ==
    IF backend = "memory" THEN GetOr(m.df, term, 0) ELSE GetOr(s.DocFreq, term, 0)

\* A timestamp as the selected backend stores it.
Stored(t) == IF backend = "memory" THEN t ELSE AsSecs(t)

\* requires_reindexing of the selected backend.
RequiresNow(path, t) ==
    IF backend = "memory" THEN MemRequiresReindexing(mem, path, t)
    ELSE SqlRequiresReindexing(sql, path, t)

\* The indexed paths whose document holds term in at least one field.
PathsContaining(term) ==
    { p \in IndexedPaths : \E f \in DOMAIN FieldsAt(p) : term \in DOMAIN FieldsAt(p)[f].tf }

\* The BM25 idf ln((N - n + 0.5) / (n + 0.5)) is the symbolic value idf.
IsBm25Idf(idf, N, n) == idf[1] * (2 * n + 1) = idf[2] * (2 * (N - n) + 1) /\ idf[2] > 0

---------------------------------------------------------------------------
(* The orchestrator: entry() of src/src/main.rs serving a directory.  It   *)
(* builds one Model (for the memory backend from the snapshot file         *)
(* <dir>/.local_search_engine.json when it exists, for the relational      *)
(* backend from index.db as earlier runs left it), puts it behind one      *)
(* Mutex, spawns the indexer thread (add_folder_to_model, then the         *)
(* snapshot) and runs the HTTP server on the main thread.  A thread holds  *)
(* the mutex from lock() to the drop of the guard; a panic while the guard *)
(* is alive poisons the mutex, and lock().unwrap() on a poisoned mutex     *)
(* panics.  A panic of the main thread ends the process.                   *)
(*   phase     "start" before entry() ran, "running" while the threads     *)
(*             run, "exited" once entry() returned Err or the main thread  *)
(*             panicked;                                                   *)
(*   snapshot  the snapshot file: kind "absent", "unreadable" (it exists   *)
(*             and cannot be opened), "corrupt" (it cannot be parsed) or   *)
(*             "valid" with the serialized docs and df;                    *)
(*   lock      the mutex: holder "none", "indexer" or "server", poisoned;  *)
(*   idx       the indexer thread: pc, the directory served (tree), the    *)
(*             entries not yet                                             *)
(*             visited (todo), the entry being indexed (cur), the          *)
(*             counters processed and skipped, the number of snapshots     *)
(*             written, whether a write of the snapshot failed, and        *)
(*             applied: path -> fields as the index held them at startup   *)
(*             and as each add_document that returned Ok gave them, and    *)
(*             log: what became of each entry visited (path, what);        *)
(*   srv       the server: pc ("accept", "wait" before lock(), "locked",   *)
(*             "respond" while the answer is sent, "dead") and the request *)
(*             being handled.  The answer to a request is recorded in      *)
(*             last, with the request in fields.                           *)

\* A directory entry as add_folder_to_model sees it: path, file_name (the
\* last component of the path, an OsStr, unit by unit: "<ff>" stands for a
\* byte that is not valid UTF-8), whether
\* file_type() and metadata() can be read (meta), whether it is a directory
\* and then its entries, the number of directories between the served
\* directory and the entry (depth), the modification time, extension
\* (Path::extension as a set: empty for None) and, for the extractor,
\* whether the text can be read (text_ok) and the text itself.
DirEntry(path, file_name, extension, text_ok, content) ==
    [path |-> path, file_name |-> file_name, meta |-> TRUE, is_dir |-> FALSE,
     entries |-> {}, depth |-> 0, last_modified |-> MaxTime, extension |-> extension,
     text_ok |-> text_ok, content |-> content]

\* The regular files of a served directory: two text files and one with an
\* unsupported extension.
DirFiles ==
    { DirEntry("a.txt", <<"a", ".", "t", "x", "t">>, {"txt"}, TRUE, <<"a">>),
      DirEntry("b.txt", <<"b", ".", "t", "x", "t">>, {"txt"}, TRUE, <<"b", " ", "B">>),
      DirEntry("c.bin", <<"c", ".", "b", "i", "n">>, {"bin"}, TRUE, <<>>) }

\* A file without extension.
NoExtFile == DirEntry("README", <<"R", "E", "A", "D", "M", "E">>, {}, TRUE, <<"a">>)

\* A pdf the extractor fails on.
BadPdf == DirEntry("e.pdf", <<"e", ".", "p", "d", "f">>, {"pdf"}, FALSE, <<>>)

\* A dot file with text.
HiddenFile ==
    DirEntry(".hidden.txt", <<".", "h", "i", "d", "d", "e", "n", ".", "t", "x", "t">>,
           {"txt"}, TRUE, <<"b", " ", "B">>)

\* A file whose metadata cannot be read.
NoMetaFile == [DirEntry("d.txt", <<"d", ".", "t", "x", "t">>, {"txt"}, TRUE, <<"a">>)
                 EXCEPT !.meta = FALSE]

\* A directory with one text file.
SubDir ==
    [DirEntry("sub", <<"s", "u", "b">>, {}, TRUE, <<>>)
       EXCEPT !.is_dir = TRUE,
              !.entries = { [DirEntry("sub/b.txt", <<"b", ".", "t", "x", "t">>, {"txt"},
                                      TRUE, <<"b", " ", "B">>) EXCEPT !.depth = 1] }]

\* A dot directory with one text file.
DotDir ==
    [DirEntry(".git", <<".", "g", "i", "t">>, {}, TRUE, <<>>)
       EXCEPT !.is_dir = TRUE,
              !.entries = { [DirEntry(".git/x.txt", <<"x", ".", "t", "x", "t">>, {"txt"},
                                      TRUE, <<"a">>) EXCEPT !.depth = 1] }]

\* <dir>/.local_search_engine.json, the snapshot file of the memory backend,
\* as an entry of the served directory.
SnapshotFile ==
    DirEntry(".local_search_engine.json",
             <<".", "l", "o", "c", "a", "l", "_", "s", "e", "a", "r", "c", "h", "_",
               "e", "n", "g", "i", "n", "e", ".", "j", "s", "o", "n">>,
             {"json"}, TRUE, <<>>)

\* A text file whose name is not valid UTF-8: to_str gives None for the
\* file name, the extension is txt.
NonUtf8File == DirEntry(NonUtf8Path, <<"<ff>", ".", "t", "x", "t">>, {"txt"}, TRUE, <<"a">>)

\* A text file whose name begins with '.' and is not valid UTF-8.
NonUtf8DotFile ==
    DirEntry(NonUtf8DotPath, <<".", "<ff>", ".", "t", "x", "t">>, {"txt"}, TRUE,
             <<"b", " ", "B">>)

\* A directory whose name begins with '.' and is not valid UTF-8, with one
\* text file.
NonUtf8DotDir ==
    [DirEntry(NonUtf8DotDirPath, <<".", "<ff>">>, {}, TRUE, <<>>)
       EXCEPT !.is_dir = TRUE,
              !.entries = { [DirEntry(NonUtf8DotDirFilePath, <<"b", ".", "t", "x", "t">>,
                                      {"txt"}, TRUE, <<"b", " ", "B">>)
                               EXCEPT !.depth = 1] }]

\* A directory that holds a file and a directory with a text file.
DeepDir ==
    [DirEntry("deep", <<"d", "e", "e", "p">>, {}, TRUE, <<>>)
       EXCEPT !.is_dir = TRUE,
              !.entries =
                  { [DirEntry("deep/c.bin", <<"c", ".", "b", "i", "n">>, {"bin"}, TRUE, <<>>)
                       EXCEPT !.depth = 1],
                    [DirEntry("deep/in", <<"i", "n">>, {}, TRUE, <<>>)
                       EXCEPT !.depth = 1, !.is_dir = TRUE,
                              !.entries =
                                  { [DirEntry("deep/in/b.txt", <<"b", ".", "t", "x", "t">>,
                                              {"txt"}, TRUE, <<"b", " ", "B">>)
                                       EXCEPT !.depth = 2] }] }]

\* The directories served, the snapshot file left aside: every set of the
\* regular files, and a.txt next to one of the other entries.
Directories ==
    (SUBSET DirFiles)
      \cup { {CHOOSE f \in DirFiles : f.path = "a.txt", e} :
               e \in {NoExtFile, BadPdf, HiddenFile, NoMetaFile, SubDir, DotDir,
                      NonUtf8File, DeepDir, NonUtf8DotFile, NonUtf8DotDir} }

RECURSIVE EntriesBelow(_)
\* The entries of a directory and of every directory below it.
EntriesBelow(dir) == dir \cup UNION { EntriesBelow(e.entries) : e \in dir }

\* Every entry of the served trees, those of the subdirectories included.
TreeEntries == EntriesBelow(UNION Directories) \cup {SnapshotFile}

\* OsStr::to_str(name).is_some(): every byte of the name is valid UTF-8.
ToStrIsSome(name) == \A i \in DOMAIN name : name[i] # "<ff>"

\* file_name().and_then(to_str).map(starts_with('.')).unwrap_or(false):
\* false for a name to_str gives None for, whatever its first byte.
DotFile(file) ==
    IF ToStrIsSome(file.file_name)
    THEN file.file_name # <<>> /\ Head(file.file_name) = "."
    ELSE FALSE

\* The extensions parse_entire_file_by_extension has an extractor for.
SupportedExtensions == {"xhtml", "xml", "html", "txt", "md", "pdf"}

\* An extractor that yields the empty text where the code returns Err(()).
ParseAlwaysOk(file) == [ok |-> TRUE, content |-> file.content]

\* parse_entire_file_by_extension: Err(()) without extension, with an
\* unsupported one, and when the extractor fails; else Ok(text).
ParseEntireFileByExtension(file) ==
    IF file.extension = {} THEN [ok |-> FALSE, content |-> <<>>]
    ELSE IF file.extension \subseteq SupportedExtensions /\ file.text_ok
         THEN [ok |-> TRUE, content |-> file.content]
         ELSE [ok |-> FALSE, content |-> <<>>]

\* The fields add_folder_to_model hands to add_document: the extracted text.
FileFields(file) == [f \in {"content"} |-> ParseEntireFileByExtension(file).content]

\* serde_json::to_writer_pretty(.., &model): docs and df are written, the two
\* caches are skipped.
Serialize(m) == [kind |-> "valid", docs |-> m.docs, df |-> m.df]

\* serde_json::from_reader::<_, InMemoryModel>: docs and df are read, the
\* skipped caches get their default, the empty map.
Deserialize(file) ==
    [docs |-> file.docs, df |-> file.df, idf_cache |-> EmptyMap,
     avg_field_length |-> EmptyMap]

\* The snapshot files entry() can find: none, one it cannot open, one it
\* cannot parse, and the snapshots an earlier run wrote after indexing
\* a.txt, at an earlier time or at the time the file has now.
SnapshotsAtStart ==
    { NoSnapshot,
      [NoSnapshot EXCEPT !.kind = "unreadable"],
      [NoSnapshot EXCEPT !.kind = "corrupt"] }
      \cup { Serialize(MemAddDocument(MemInit, "a.txt", t, [f \in {"content"} |-> <<"a">>])) :
               t \in {0, MaxTime} }

\* The entries read_dir yields for the served directory dir when the
\* snapshot file is file: index_path is dir_path joined with
\* .local_search_engine.json, so a snapshot file that exists is an entry of
\* the directory.
ServedTree(dir, file) == IF file.kind = "absent" THEN dir ELSE dir \cup {SnapshotFile}

\* index.db as SqliteModel::open can find it: without rows, and as an earlier
\* run left it after indexing a.txt.
StoresAtStart ==
    { SqlInit,
      SqlAddDocument(SqlInit, "a.txt", 0, [f \in {"content"} |-> <<"a">>], <<"content">>,
                     {}).st }

Methods == {"GET", "POST", "PUT"}

Urls == {"/api/search", "/api/stats", "/index.js", "/", "/index.html", "/api/stats?x"}

\* The requests the server gets: every method on every URL, and POST
\* /api/search with a query, with an empty body and with a body that is not
\* valid UTF-8.
Requests ==
    { [method |-> m, url |-> u, utf8 |-> TRUE, query |-> <<>>] : m \in Methods, u \in Urls }
      \cup { [method |-> "POST", url |-> "/api/search", utf8 |-> TRUE, query |-> <<"a">>],
              [method |-> "POST", url |-> "/api/search", utf8 |-> FALSE, query |-> <<>>] }

\* A handler that serves every URL of the API whatever the method.
RouteByUrl(req) ==
    CASE req.url = "/api/search" -> "search"
      [] req.url = "/api/stats" -> "stats"
      [] req.url = "/index.js" -> "index.js"
      [] req.url \in {"/", "/index.html"} -> "index.html"
      [] OTHER -> "404"

\* serve_request: the handler chosen by (method, url).
Route(req) ==
    CASE req.method = "POST" /\ req.url = "/api/search" -> "search"
      [] req.method = "GET" /\ req.url = "/api/stats" -> "stats"
      [] req.method = "GET" /\ req.url = "/index.js" -> "index.js"
      [] req.method = "GET" /\ req.url \in {"/", "/index.html"} -> "index.html"
      [] OTHER -> "404"

\* A response: status code, body text (for the two files, their name), and
\* for the API the JSON body: the list of pairs or the two counts.  search
\* tells what search_query returned to the handler ("none" when it was not
\* called), panic that the handler panicked and sent nothing.  The status
\* is 0 when the handler called request.respond with nothing.
Response(status, text) ==
    [status |-> status, text |-> text, list |-> <<>>, docs_count |-> 0, terms_count |-> 0,
     search |-> "none", panic |-> FALSE]

\* What last holds after the answer to a request.
Answered(req, response) ==
    [op |-> "http", path |-> req.url, t |-> 0, fields |-> req, res |-> response]

\* path -> fields of the documents the selected backend holds in (m, s).
IndexContents(m, s) ==
    IF backend = "memory" THEN [p \in DOMAIN m.docs |-> m.docs[p].fields]
    ELSE [p \in { d.path : d \in s.Documents } |->
             SqlFieldsOf(s, (CHOOSE d \in SqlDocsAt(s, p) : TRUE).id)]

\* The process before entry() runs.
InitRun ==
    /\ backend \in Backends
    /\ mem = MemInit
    /\ sql \in (IF backend = "sqlite" THEN StoresAtStart ELSE {SqlInit})
    /\ calls = 0
    /\ last = NoOp
    /\ phase = "start"
    /\ snapshot \in (IF backend = "memory" THEN SnapshotsAtStart ELSE {NoSnapshot})
    /\ lock = LockFree
    /\ idx \in { [IdxOff EXCEPT !.tree = ServedTree(dir, snapshot),
                                !.todo = ServedTree(dir, snapshot)] : dir \in Directories }
    /\ srv = SrvOff

\* entry(), "serve": the Model is built, the indexer thread spawned and the
\* server started; with a snapshot file that exists and cannot be opened or
\* parsed, map_err(..)? returns Err(()) before any of that.
Entry ==
    /\ phase = "start"
    /\ IF backend = "memory" /\ snapshot.kind \in {"unreadable", "corrupt"}
       THEN /\ phase' = "exited"
            /\ UNCHANGED <<mem, idx, srv>>
       ELSE /\ phase' = "running"
            /\ mem' = IF backend = "memory" /\ snapshot.kind = "valid"
                      THEN Deserialize(snapshot) ELSE mem
            /\ idx' = [idx EXCEPT !.pc = "walk", !.applied = IndexContents(mem', sql)]
            /\ srv' = [srv EXCEPT !.pc = "accept"]
    /\ UNCHANGED <<backend, sql, calls, last, snapshot, lock>>

\* An entry of the log of the indexer.
Logged(file, what) == [path |-> file.path, what |-> what]

\* add_folder_to_model, the next entry of a directory up to the lock
\* (read_dir yields the entries in any order): a dot file is counted as
\* skipped; an entry whose file type or metadata cannot be read makes the
\* function return Err(()) by `?`, and add_folder_to_model(..).unwrap()
\* panics in the indexer thread; a directory is descended into by the
\* recursive call, which returns before the loop goes on: its entries join
\* those still to visit, and the next entry is one of the deepest.
IdxVisit(file) ==
    /\ phase = "running"
    /\ idx.pc = "walk"
    /\ file \in idx.todo
    /\ \A other \in idx.todo : other.depth <= file.depth
    /\ DotFile(file) \/ ~file.meta \/ file.is_dir
    /\ idx' = IF DotFile(file)
              THEN [idx EXCEPT !.todo = idx.todo \ {file}, !.skipped = idx.skipped + 1,
                               !.log = idx.log \cup {Logged(file, "dot file")}]
              ELSE IF ~file.meta
              THEN [idx EXCEPT !.pc = "panicked",
                               !.log = idx.log \cup {Logged(file, "no metadata")}]
              ELSE [idx EXCEPT !.todo = (idx.todo \ {file}) \cup file.entries,
                               !.log = idx.log \cup {Logged(file, "directory")}]
    /\ UNCHANGED <<backend, mem, sql, calls, last, phase, snapshot, lock, srv>>

\* add_folder_to_model, model.lock().unwrap() for the next regular file.
IdxLock(file) ==
    /\ phase = "running"
    /\ idx.pc = "walk"
    /\ file \in idx.todo
    /\ \A other \in idx.todo : other.depth <= file.depth
    /\ ~DotFile(file) /\ file.meta /\ ~file.is_dir
    /\ lock.holder = "none"
    /\ IF lock.poisoned
       THEN /\ idx' = [idx EXCEPT !.pc = "panicked"]
            /\ UNCHANGED lock
       ELSE /\ idx' = [idx EXCEPT !.pc = "file", !.todo = idx.todo \ {file}, !.cur = {file}]
            /\ lock' = [lock EXCEPT !.holder = "indexer"]
    /\ UNCHANGED <<backend, mem, sql, calls, last, phase, snapshot, srv>>

\* A loop body whose guard outlives the iteration.
KeepGuard(l) == l

\* The guard `model` of the loop body goes out of scope at the end of the
\* iteration, at a continue and at a return by `?`: the mutex is released.
DropGuard(l) == [l EXCEPT !.holder = "none"]

\* add_folder_to_model under the guard: requires_reindexing, the extractor,
\* add_document, then the guard is dropped.  An Err of add_document leaves
\* the function by `?` (the guard is dropped on the way) and
\* add_folder_to_model(..).unwrap() panics in the indexer thread.
IdxIndexFile(order) ==
    /\ phase = "running"
    /\ idx.pc = "file"
    /\ LET file == CHOOSE f \in idx.cur : TRUE
           fields == FileFields(file)
           requires == IF backend = "memory"
                       THEN MemRequiresReindexing(mem, file.path, file.last_modified)
                       ELSE SqlRequiresReindexing(sql, file.path, file.last_modified)
           skip == [idx EXCEPT !.pc = "walk", !.cur = {}, !.skipped = idx.skipped + 1,
                               !.log = idx.log \cup
                                   {Logged(file, IF requires THEN "not parsed" ELSE "ignored")}]
       IN  /\ order \in Orders(DOMAIN fields)
           /\ IF ~requires \/ ~ParseEntireFileByExtension(file).ok
              THEN idx' = skip /\ UNCHANGED <<mem, sql, calls>>
              ELSE IF backend = "memory"
              THEN /\ mem' = MemAddDocument(mem, file.path, file.last_modified, fields)
                   /\ idx' = [idx EXCEPT !.pc = "walk", !.cur = {},
                                         !.processed = idx.processed + 1,
                                         !.applied = IndexContents(mem', sql),
                                         !.log = idx.log \cup {Logged(file, "added")}]
                   /\ UNCHANGED <<sql, calls>>
              ELSE /\ \E before \in SqlTermsBefore(sql, file.path, fields, order) :
                        LET r == SqlAddDocument(sql, file.path, file.last_modified, fields,
                                                order, before)
                        IN  /\ sql' = r.st
                            /\ idx' = IF r.ok
                                      THEN [idx EXCEPT
                                              !.pc = "walk", !.cur = {},
                                              !.processed = idx.processed + 1,
                                              !.applied = MapPut(idx.applied,
                                                  PathDisplay(file.path),
                                                  [f \in DOMAIN fields |-> FieldData(fields[f])]),
                                              !.log = idx.log \cup {Logged(file, "added")}]
                                      ELSE [idx EXCEPT
                                              !.pc = "panicked", !.cur = {},
                                              !.log = idx.log \cup {Logged(file, "add failed")}]
                   /\ calls' = calls + 1
                   /\ UNCHANGED mem
    /\ lock' = DropGuard(lock)
    /\ UNCHANGED <<backend, last, phase, snapshot, srv>>

\* The snapshot written at the end of every pass, also of one that processed
\* no document.
ShouldSaveAlways(processed) == TRUE

\* if processed != 0, in the thread of the memory backend.
ShouldSave(processed) == processed # 0

\* The pass is over and nothing is left to write: the thread ends.
IdxEndPass ==
    /\ phase = "running"
    /\ idx.pc = "walk"
    /\ idx.todo = {}
    /\ backend = "sqlite" \/ ~ShouldSave(idx.processed)
    /\ idx' = [idx EXCEPT !.pc = "done"]
    /\ UNCHANGED <<backend, mem, sql, calls, last, phase, snapshot, lock, srv>>

\* The pass is over, memory backend, processed != 0: model_clone.lock().unwrap().
IdxLockForSave ==
    /\ phase = "running"
    /\ idx.pc = "walk"
    /\ idx.todo = {}
    /\ backend = "memory" /\ ShouldSave(idx.processed)
    /\ lock.holder = "none"
    /\ IF lock.poisoned
       THEN /\ idx' = [idx EXCEPT !.pc = "panicked"]
            /\ UNCHANGED lock
       ELSE /\ idx' = [idx EXCEPT !.pc = "save"]
            /\ lock' = [lock EXCEPT !.holder = "indexer"]
    /\ UNCHANGED <<backend, mem, sql, calls, last, phase, snapshot, srv>>

\* save_model_as_json(in_memory, &index_path).unwrap() under the guard.
\* "written": the file holds the snapshot.  "create failed": File::create
\* returns an error, the file is as before.  "write failed":
\* to_writer_pretty returns an error after File::create truncated the file,
\* because a write of the BufWriter is refused while the snapshot is
\* serialized, or because the path of a document is not valid UTF-8; the
\* file is left empty or partly written.  On either Err(()) the unwrap
\* panics while the guard is alive.  "write discarded": the snapshot fits
\* the buffer of the BufWriter, which to_writer_pretty never flushes, so the
\* only write is made when the BufWriter is dropped and its error is
\* discarded: Ok(()) is returned, the file is left empty and the thread
\* ends as after a write that succeeded.  The size of the snapshot depends
\* on the length of the served path, which the model leaves open.
IdxSave(outcome) ==
    /\ phase = "running"
    /\ idx.pc = "save"
    /\ outcome \in {"written", "write discarded"}
          => \A path \in DOMAIN mem.docs : PathIsUtf8(path)
    /\ IF outcome = "written"
       THEN /\ snapshot' = Serialize(mem)
            /\ idx' = [idx EXCEPT !.pc = "done", !.writes = idx.writes + 1]
            /\ lock' = [lock EXCEPT !.holder = "none"]
       ELSE IF outcome = "write discarded"
       THEN /\ snapshot' = [NoSnapshot EXCEPT !.kind = "corrupt"]
            /\ idx' = [idx EXCEPT !.pc = "done", !.save_failed = TRUE]
            /\ lock' = [lock EXCEPT !.holder = "none"]
       ELSE /\ snapshot' = IF outcome = "create failed" THEN snapshot
                           ELSE [NoSnapshot EXCEPT !.kind = "corrupt"]
            /\ idx' = [idx EXCEPT !.pc = "panicked", !.save_failed = TRUE]
            /\ lock' = [holder |-> "none", poisoned |-> TRUE]
    /\ UNCHANGED <<backend, mem, sql, calls, last, phase, srv>>

\* serve_request for a request whose handler does not take the mutex: the
\* two files, 404 for what no arm of the match serves, and 400 from
\* serve_api_search for a body that is not valid UTF-8.
SrvAnswer(req) ==
    /\ phase = "running"
    /\ srv.pc = "accept"
    /\ Route(req) \notin {"search", "stats"} \/ (Route(req) = "search" /\ ~req.utf8)
    /\ last' = Answered(req,
                  CASE Route(req) = "search" ->
                           Response(400, "400: could not parse search request body as UTF-8")
                    [] Route(req) = "404" -> Response(404, "404")
                    [] OTHER -> Response(200, Route(req)))
    /\ UNCHANGED <<backend, mem, sql, calls, phase, snapshot, lock, idx, srv>>

\* serve_request for a request whose handler takes the mutex: the handler
\* is entered and stands before model.lock().
SrvReceive(req) ==
    /\ phase = "running"
    /\ srv.pc = "accept"
    /\ Route(req) = "stats" \/ (Route(req) = "search" /\ req.utf8)
    /\ srv' = [pc |-> "wait", req |-> req]
    /\ UNCHANGED <<backend, mem, sql, calls, last, phase, snapshot, lock, idx>>

\* serve_api_search / serve_api_stats: model.lock().unwrap() on the main
\* thread, which blocks while the indexer holds the mutex.  On a poisoned
\* mutex it panics and the process ends.
SrvLock ==
    /\ phase = "running"
    /\ srv.pc = "wait"
    /\ lock.holder = "none"
    /\ IF lock.poisoned
       THEN /\ srv' = [srv EXCEPT !.pc = "dead"]
            /\ phase' = "exited"
            /\ UNCHANGED lock
       ELSE /\ srv' = [srv EXCEPT !.pc = "locked"]
            /\ lock' = [lock EXCEPT !.holder = "server"]
            /\ UNCHANGED phase
    /\ UNCHANGED <<backend, mem, sql, calls, last, snapshot, idx>>

\* result.iter().take(20): the first 20 entries of a result list.
Take20(result) == SubSeq(result, 1, IF Len(result) < 20 THEN Len(result) ELSE 20)

\* Counts that leave out the terms no document holds any more.
StatsLiveTerms(m, s) ==
    IF backend = "memory"
    THEN [docs_count |-> Cardinality(DOMAIN m.docs),
          terms_count |-> Cardinality({ term \in DOMAIN m.df : m.df[term] > 0 })]
    ELSE [docs_count |-> Cardinality(s.Documents),
          terms_count |-> Cardinality({ term \in DOMAIN s.DocFreq : s.DocFreq[term] > 0 })]

\* serve_api_stats: docs.len() and df.len(), or the two SELECT COUNT(*).
Stats(m, s) ==
    IF backend = "memory"
    THEN [docs_count |-> Cardinality(DOMAIN m.docs), terms_count |-> Cardinality(DOMAIN m.df)]
    ELSE [docs_count |-> Cardinality(s.Documents), terms_count |-> Cardinality(DOMAIN s.DocFreq)]

\* Who holds the mutex once the handler has queried the Model and is about
\* to serialize and send the answer: serve_api_stats takes the guard in a
\* block that ends before the JSON is built; in serve_api_search the guard
\* is a local of the function and lives until it returns.
GuardAfterQuery(req) == IF Route(req) = "stats" THEN "none" ELSE "server"

\* The handler under the guard: search_query or the counts.  last holds the
\* answer the handler has built, which SrvSend sends.  search_query of the
\* relational backend returns Err(()) when a statement cannot be prepared or
\* run (failed), and the answer is 500; it is 500 as well when
\* serde_json::to_string fails on the first 20 entries of the result, one
\* of the paths not being valid UTF-8.  When a statement of serve_api_stats
\* on the relational backend fails, the handler returns Err by `?`: the
\* guard is dropped, request.respond is never called (recorded as status 0)
\* and start goes on with the next request.  A panic of search_query
\* unwinds the main thread with the guard alive.
SrvServe(failed) ==
    /\ phase = "running"
    /\ srv.pc = "locked"
    /\ failed => backend = "sqlite"
    /\ LET scores == IF backend = "memory" THEN MemSearchScores(mem, srv.req.query)
                     ELSE SqlSearchScores(sql, srv.req.query)
           stats == Stats(mem, sql)
           respond == /\ srv' = [srv EXCEPT !.pc = "respond"]
                      /\ lock' = [lock EXCEPT !.holder = GuardAfterQuery(srv.req)]
                      /\ UNCHANGED phase
       IN  IF Route(srv.req) = "stats" /\ failed
           THEN /\ last' = Answered(srv.req, Response(0, ""))
                /\ srv' = [pc |-> "accept", req |-> NoRequest]
                /\ lock' = [lock EXCEPT !.holder = "none"]
                /\ UNCHANGED phase
           ELSE IF Route(srv.req) = "stats"
           THEN /\ last' = Answered(srv.req,
                              [Response(200, "") EXCEPT !.docs_count = stats.docs_count,
                                                        !.terms_count = stats.terms_count])
                /\ respond
           ELSE IF failed
           THEN /\ last' = Answered(srv.req, [Response(500, "500") EXCEPT !.search = "err"])
                /\ respond
           ELSE IF backend = "sqlite" /\ SqlSortPanics(scores)
           THEN /\ last' = Answered(srv.req, [Response(0, "") EXCEPT !.panic = TRUE])
                /\ srv' = [pc |-> "dead", req |-> NoRequest]
                /\ lock' = [holder |-> "none", poisoned |-> TRUE]
                /\ phase' = "exited"
           ELSE /\ \E result \in SortedResults(scores) :
                      last' = Answered(srv.req,
                                  IF \A i \in DOMAIN Take20(result) :
                                         PathIsUtf8(Take20(result)[i][1])
                                  THEN [Response(200, "") EXCEPT !.list = Take20(result),
                                                                 !.search = "ok"]
                                  ELSE [Response(500, "500") EXCEPT !.search = "ok"])
                /\ respond
    /\ UNCHANGED <<backend, mem, sql, calls, snapshot, idx>>

\* The answer is serialized and written to the connection (request.respond),
\* the handler returns and drops the guard if it still holds it.
SrvSend ==
    /\ phase = "running"
    /\ srv.pc = "respond"
    /\ srv' = [pc |-> "accept", req |-> NoRequest]
    /\ lock' = IF lock.holder = "server" THEN [lock EXCEPT !.holder = "none"] ELSE lock
    /\ UNCHANGED <<backend, mem, sql, calls, last, phase, snapshot, idx>>

NextRun ==
    \/ Entry
    \/ \E file \in TreeEntries : IdxVisit(file)
    \/ \E file \in TreeEntries : IdxLock(file)
    \/ \E order \in Orders({"content"}) : IdxIndexFile(order)
    \/ IdxEndPass
    \/ IdxLockForSave
    \/ \E outcome \in {"written", "create failed", "write failed", "write discarded"} :
           IdxSave(outcome)
    \/ \E req \in Requests : SrvAnswer(req)
    \/ \E req \in Requests : SrvReceive(req)
    \/ SrvLock
    \/ \E failed \in BOOLEAN : SrvServe(failed)
    \/ SrvSend

\* One run of the process, either backend.
SpecRun == InitRun /\ [][NextRun]_vars

\* The served trees in which no operation fails: every entry's type and
\* metadata can be read, and every path is valid UTF-8 (the snapshot and
\* the answer to a search can be serialized).
LiveDirectories ==
    { dir \in Directories : \A e \in EntriesBelow(dir) : e.meta /\ PathIsUtf8(e.path) }

\* The requests of the runs without failure: a search, the counts, a file
\* and a request no handler serves.
LiveRequests ==
    { req \in Requests :
        \/ req.method = "POST" /\ req.url = "/api/search" /\ req.utf8 /\ req.query # <<>>
        \/ req.method = "GET" /\ req.url \in {"/api/stats", "/index.js"}
        \/ req.method = "PUT" /\ req.url = "/" }

\* The process before entry() runs, where no operation of the run will
\* fail: the snapshot file is absent or valid, index.db has no rows.
InitLive ==
    /\ backend \in Backends
    /\ mem = MemInit
    /\ sql = SqlInit
    /\ calls = 0
    /\ last = NoOp
    /\ phase = "start"
    /\ snapshot \in (IF backend = "memory"
                     THEN { f \in SnapshotsAtStart : f.kind \in {"absent", "valid"} }
                     ELSE {NoSnapshot})
    /\ lock = LockFree
    /\ idx \in { [IdxOff EXCEPT !.tree = ServedTree(dir, snapshot),
                                !.todo = ServedTree(dir, snapshot)] : dir \in LiveDirectories }
    /\ srv = SrvOff

\* The steps of a run in which the snapshot is written and search_query
\* returns Ok.
NextLive ==
    \/ Entry
    \/ \E file \in TreeEntries : IdxVisit(file)
    \/ \E file \in TreeEntries : IdxLock(file)
    \/ \E order \in Orders({"content"}) : IdxIndexFile(order)
    \/ IdxEndPass
    \/ IdxLockForSave
    \/ IdxSave("written")
    \/ \E req \in LiveRequests : SrvAnswer(req)
    \/ \E req \in LiveRequests : SrvReceive(req)
    \/ SrvLock
    \/ SrvServe(FALSE)
    \/ SrvSend

\* Scheduling: a thread that can take a step takes it (the two threads run
\* on their own), and a thread that stands before lock() gets the mutex when
\* it is free again and again (a fair mutex).  Requests arrive or not.
\* The steps that index a file and that run a query can be taken whenever
\* their thread stands at them: their weak fairness is written with that
\* position in place of ENABLED.
FairRun ==
    /\ WF_vars(Entry)
    /\ WF_vars(\E file \in TreeEntries : IdxVisit(file))
    /\ SF_vars(\E file \in TreeEntries : IdxLock(file))
    /\ <>[](phase = "running" /\ idx.pc = "file")
         => []<><<\E order \in Orders({"content"}) : IdxIndexFile(order)>>_vars
    /\ WF_vars(IdxEndPass)
    /\ SF_vars(IdxLockForSave)
    /\ WF_vars(IdxSave("written"))
    /\ SF_vars(SrvLock)
    /\ <>[](phase = "running" /\ srv.pc = "locked")
         => []<><<SrvServe(FALSE)>>_vars
    /\ WF_vars(SrvSend)

\* One run without failing operation, under fair scheduling.
SpecLive == InitLive /\ [][NextLive]_vars /\ FairRun

\* The longest list search_query returns in the specification of the answer.
MaxResults == 22

\* The ranked lists search_query can return: n entries, by descending score,
\* with scores that are all different, all equal, equal in pairs, or all
\* different and negative; the path of entry bad, if there is one, is not
\* valid UTF-8.
RankedLists ==
    { [i \in 1..n |-> <<IF i = bad THEN NonUtf8Path ELSE ToString(i),
                        <<CASE kind = "distinct" -> (n - i) * 100
                            [] kind = "equal" -> 0
                            [] kind = "pairs" -> ((n - i) \div 2) * 100
                            [] OTHER -> 0 - i * 100,
                          10000>>>>] :
        n \in 0..MaxResults, kind \in {"distinct", "equal", "pairs", "negative"},
        bad \in {0, 1, 20, 21} }

\* serve_api_search once search_query returned Ok(result): the answer sent,
\* the first 20 entries as JSON, or 500 when serde_json::to_string fails on
\* them, the path of one of them not being valid UTF-8.  The relational
\* backend builds each path from a String (PathBuf::from(path_str)), so its
\* lists hold valid UTF-8 only.  last holds the list returned in fields and
\* the answer in res.
SrvRespond(result) ==
    /\ backend = "sqlite" => \A i \in DOMAIN result : PathIsUtf8(result[i][1])
    /\ last' = [NoOp EXCEPT !.op = "respond", !.fields = result,
                            !.res = IF \A i \in DOMAIN Take20(result) :
                                          PathIsUtf8(Take20(result)[i][1])
                                    THEN [panic |-> FALSE, status |-> 200,
                                          list |-> Take20(result)]
                                    ELSE [panic |-> FALSE, status |-> 500, list |-> <<>>]]
    /\ UNCHANGED <<backend, mem, sql, calls>>
    /\ UNCHANGED orch

NextRespond == \E result \in RankedLists : SrvRespond(result)

\* The answers of POST /api/search to the lists of RankedLists.
SpecRespond == Init /\ [][NextRespond]_vars

\* serve_api_stats under the guard, on the Model alone: the two counts.
ModelStats ==
    /\ last' = [NoOp EXCEPT !.op = "stats", !.res = Stats(mem, sql)]
    /\ UNCHANGED <<backend, mem, sql, calls>>
    /\ UNCHANGED orch

\* Adds and removes on either backend, and the counts of serve_api_stats
\* between them.
NextStats ==
    \/ \E path \in Paths, fields \in FieldMaps : MemAdd(path, 1, fields)
    \/ \E path \in Paths : MemRemove(path)
    \/ \E path \in Paths, fields \in FieldMaps :
           \E order \in Orders(DOMAIN fields) : SqlAdd(path, 1, fields, order)
    \/ \E path \in Paths : SqlRemove(path)
    \/ SqlBegin
    \/ SqlCommit
    \/ ModelStats

SpecStats == Init /\ [][NextStats]_vars

\* The same calls made on an InMemoryModel and on a SqliteModel, both
\* empty at the start: backend is "both", mem and sql take every call, and
\* last.res holds what each of the two returned.
InitBoth ==
    /\ backend = "both"
    /\ mem = MemInit
    /\ sql = SqlInit
    /\ calls = 0
    /\ last = NoOp
    /\ phase = "model"
    /\ snapshot = NoSnapshot
    /\ lock = LockFree
    /\ idx = IdxOff
    /\ srv = SrvOff

\* add_document on both.
BothAdd(path, t, fields, order) ==
    /\ backend = "both"
    /\ calls < MaxOps
    /\ calls' = calls + 1
    /\ mem' = MemAddDocument(mem, path, t, fields)
    /\ \E before \in SqlTermsBefore(sql, path, fields, order) :
          LET r == SqlAddDocument(sql, path, t, fields, order, before)
          IN  /\ sql' = r.st
              /\ last' = [op |-> "add", path |-> path, t |-> t, fields |-> fields,
                          res |-> [mem |-> "ok", sql |-> Res(r.ok)]]
    /\ UNCHANGED backend
    /\ UNCHANGED orch

\* remove_document on both.
BothRemove(path) ==
    /\ backend = "both"
    /\ calls < MaxOps
    /\ calls' = calls + 1
    /\ mem' = MemRemoveDocument(mem, path)
    /\ LET r == SqlRemoveDocument(sql, path)
       IN  /\ sql' = r.st
           /\ last' = [NoOp EXCEPT !.op = "remove", !.path = path,
                                   !.res = [mem |-> "ok", sql |-> Res(r.ok)]]
    /\ UNCHANGED backend
    /\ UNCHANGED orch

NextBoth ==
    \/ \E path \in Paths, t \in Times, fields \in FieldMaps :
           \E order \in Orders(DOMAIN fields) : BothAdd(path, t, fields, order)
    \/ \E path \in Paths : BothRemove(path)

SpecBoth == InitBoth /\ [][NextBoth]_vars

---------------------------------------------------------------------------
(* Claims. *)

\* The documents of the memory backend that hold term in at least one field.
MemDocsContaining(term) ==
    { p \in DOMAIN mem.docs :
        \E f \in DOMAIN mem.docs[p].fields : term \in DOMAIN mem.docs[p].fields[f].tf }

\* C1: memory backend, in every state reached from the empty index by adds
\* and removes: for every term, DocumentFrequency[term] (0 when absent) is
\* the number of indexed documents that hold the term in at least one field.
C1_MemDocFreqIsDocCount ==
    \A term \in Terms \cup DOMAIN mem.df :
        GetOr(mem.df, term, 0) = Cardinality(MemDocsContaining(term))

\* A remove left a term with count 0 beside a term that the remaining
\* document holds in two fields and that is counted once.
C1_Witness ==
    /\ backend = "memory"
    /\ last.op = "remove"
    /\ \E term \in DOMAIN mem.df : mem.df[term] = 0
    /\ \E term \in DOMAIN mem.df, p \in DOMAIN mem.docs :
          /\ mem.df[term] = 1
          /\ \A f \in Fields : f \in DOMAIN mem.docs[p].fields
                               /\ term \in DOMAIN mem.docs[p].fields[f].tf

\* C2: relational backend: remove_document lowers DocFreq by exactly one for
\* each distinct term of the removed document (also for a term held in
\* several fields), and DocFreq[term] is always the number of rows of
\* Documents whose document holds the term.
C2_SqlRemoveDecrementsOncePerTerm ==
    /\ \A path \in Paths, term \in Terms :
          LET after == SqlRemoveDocument(sql, path).st
              held == path \in IndexedPaths /\ path \in PathsContaining(term)
          IN  backend = "sqlite" =>
                GetOr(after.DocFreq, term, 0)
                  = GetOr(sql.DocFreq, term, 0) - (IF held THEN 1 ELSE 0)
    /\ backend = "sqlite" =>
          \A term \in Terms : DocFreqOf(term) = Cardinality(PathsContaining(term))

\* C3: either backend: DocumentFrequency[term] is never below zero.
C3_DocFreqNeverNegative ==
    /\ \A term \in DOMAIN mem.df : mem.df[term] >= 0
    /\ \A term \in DOMAIN sql.DocFreq : sql.DocFreq[term] >= 0

\* What C4 requires of a step that adds (last'.path, last'.t, last'.fields)
\* at a path that was indexed.
C4_Replaced ==
    LET p == last'.path
        new_terms == UniqueTerms([f \in DOMAIN last'.fields |-> FieldData(last'.fields[f])])
        old_terms == UniqueTerms(FieldsAt(p))
        others(term) == Cardinality(PathsContaining(term) \ {p})
    IN  /\ last'.res = "ok"
        /\ DocCount' = DocCount
        /\ p \in IndexedPaths'
        /\ backend = "sqlite" => Cardinality(SqlDocsAt(sql', p)) = 1
        /\ FieldsIn(mem', sql', p)
              = [f \in DOMAIN last'.fields |-> FieldData(last'.fields[f])]
        /\ LastModifiedIn(mem', sql', p) = Stored(last'.t)
        /\ \A term \in old_terms \ new_terms :
              DocFreqIn(mem', sql', term) = DocFreqOf(term) - 1
        /\ \A term \in new_terms : DocFreqIn(mem', sql', term) = others(term) + 1

\* C4: either backend: an add at an already indexed path returns ok and
\* replaces the document: same number of documents, one document at the path
\* with exactly the new fields and timestamp, DocumentFrequency one lower for
\* a term of the old document only, and counting the new document once for
\* each of its terms.
C4_AddReplaces ==
    [][(last'.op = "add" /\ last'.path \in IndexedPaths) => C4_Replaced]_vars

\* C5: either backend: every add succeeds, and an add repeated with the same
\* path, timestamp and fields succeeds again and leaves the state of the
\* first add.
C5_ReAddIdempotent ==
    [][(last'.op = "add")
          => /\ last'.res = "ok"
             /\ (last.op = "add" /\ last.path = last'.path /\ last.t = last'.t
                 /\ last.fields = last'.fields)
                    => (mem' = mem /\ sql' = sql)]_vars

\* C6: either backend: where a remove of an indexed path p was made, an
\* add(p, t, F) after it gives the result and the state that the same add
\* gives without the remove.
C6_RemoveThenAdd ==
    [][(last'.op = "remove" /\ last'.path \in IndexedPaths)
          => \A t \in Times, fields \in FieldMaps :
                /\ MemAddDocument(mem', last'.path, t, fields)
                     = MemAddDocument(mem, last'.path, t, fields)
                /\ \A order \in Orders(DOMAIN fields) :
                     { SqlAddDocument(sql', last'.path, t, fields, order, before) :
                         before \in SqlTermsBefore(sql', last'.path, fields, order) }
                       = { SqlAddDocument(sql, last'.path, t, fields, order, before) :
                             before \in SqlTermsBefore(sql, last'.path, fields, order) }]_vars

\* C7: either backend: requires_reindexing is true at a path that is not
\* indexed, and after add(p, t1, F) it is true for every t2 > t1 and false
\* for every t2 <= t1.
C7_ReindexIffOlder ==
    /\ \A path \in Paths \ IndexedPaths, t \in Times : RequiresNow(path, t)
    /\ (last.op = "add" /\ last.res = "ok")
          => \A t2 \in Times : RequiresNow(last.path, t2) = (t2 > last.t)

\* C8: memory backend: for every field, AverageFieldLength[f] is the sum of
\* the field lengths of f over the documents that carry f divided by their
\* number, and has no entry when no document carries f.
C8_MemAvgFieldLengthIsMean ==
    \A f \in Fields \cup DOMAIN mem.avg_field_length :
        LET carriers == { p \in DOMAIN mem.docs : f \in DOMAIN mem.docs[p].fields }
            total == SumFn([p \in carriers |-> mem.docs[p].fields[f].len], carriers)
        IN  IF carriers = {} THEN f \notin DOMAIN mem.avg_field_length
            ELSE /\ f \in DOMAIN mem.avg_field_length
                 /\ mem.avg_field_length[f][2] > 0
                 /\ mem.avg_field_length[f][1] * Cardinality(carriers)
                      = total * mem.avg_field_length[f][2]

\* A remove left one document, which carries content alone with two tokens:
\* the mean of content is 2, name has no entry, and a term of the removed
\* document is counted 0.
C8_Witness ==
    /\ backend = "memory"
    /\ last.op = "remove"
    /\ \E term \in DOMAIN mem.df : mem.df[term] = 0
    /\ Cardinality(DOMAIN mem.docs) = 1
    /\ "content" \in DOMAIN mem.avg_field_length
    /\ mem.avg_field_length["content"] = <<2, 1>>
    /\ "name" \notin DOMAIN mem.avg_field_length

\* C9: relational backend: every row of DocumentField and of TermFreq
\* belongs to a row of Documents, and the average field length update_cache
\* computes for a field is the mean over the indexed documents that carry
\* it (no entry when none does).
C9_SqlNoRowOfRemovedDocument ==
    LET ids == { d.id : d \in sql.Documents }
        avgdl == SqlUpdateCache(sql).avgdl
    IN  /\ \A r \in sql.DocumentField : r.doc_id \in ids
        /\ \A r \in sql.TermFreq : r.doc_id \in ids
        /\ \A f \in Fields \cup DOMAIN avgdl :
              LET rows == { r \in sql.DocumentField : r.field = f /\ r.doc_id \in ids }
                  total == SumFn([r \in rows |-> r.field_term_count], rows)
              IN  IF rows = {} THEN f \notin DOMAIN avgdl
                  ELSE /\ f \in DOMAIN avgdl
                       /\ avgdl[f][1] * Cardinality(rows) = total * avgdl[f][2]

\* C10: both backends: the idf cached for a term with document frequency
\* n >= 1 among N documents is ln((N - n + 0.5) / (n + 0.5)).
C10_IdfIsBm25 ==
    /\ backend = "memory" =>
          \A term \in DOMAIN mem.df :
              mem.df[term] >= 1 =>
                  /\ term \in DOMAIN mem.idf_cache
                  /\ IsBm25Idf(mem.idf_cache[term], Cardinality(DOMAIN mem.docs), mem.df[term])
    /\ backend = "sqlite" =>
          \A term \in DOMAIN sql.DocFreq :
              sql.DocFreq[term] >= 1 =>
                  IsBm25Idf(SqlUpdateCache(sql).idf_cache[term],
                            Cardinality(sql.Documents), sql.DocFreq[term])

\* C11: either backend: for every indexed document and every field it
\* carries, the stored term frequencies of the field sum to the stored field
\* length.
C11_TermFreqSumIsFieldLength ==
    \A p \in IndexedPaths :
        \A f \in DOMAIN FieldsAt(p) :
            SumFn(FieldsAt(p)[f].tf, DOMAIN FieldsAt(p)[f].tf) = FieldsAt(p)[f].len

\* The index holds exactly the documents of docs (two documents of
\* SearchDocs at different paths), added to an empty index.
Holds(docs) ==
    /\ IndexedPaths = { d.path : d \in docs }
    /\ \A d \in docs : FieldsAt(d.path) = [f \in DOMAIN d.fields |-> FieldData(d.fields[f])]
    /\ backend = "sqlite" => calls = Cardinality(docs)

\* The last call was a search for query and returned a list.
Searched(query) == last.op = "search" /\ last.fields = query /\ ~last.res.panic

\* The position of path in a result list, 0 when it has no entry.
Rank(result, path) ==
    IF \E i \in DOMAIN result : result[i][1] = path
    THEN CHOOSE i \in DOMAIN result : result[i][1] = path
    ELSE 0

\* C12: scenario S1, either backend: with a.txt ("the quick brown fox") and
\* b.txt ("the lazy dog") added, search("fox") returns a.txt first with a
\* score above 0, and b.txt has no entry or has score 0 at a later position.
C12_S1FoxRanksFirst ==
    (Holds({S1a, S1b}) /\ last.op = "search" /\ last.fields = QFox)
        => /\ ~last.res.panic
           /\ Len(last.res.list) >= 1
           /\ last.res.list[1][1] = "a.txt"
           /\ last.res.list[1][2][1] > 0
           /\ LET i == Rank(last.res.list, "b.txt")
              IN  i # 0 => (i > 1 /\ last.res.list[i][2] = ScoreZero)

\* C13: scenario S4, either backend: with readme.md (name "readme", content
\* "installation guide") and guide.md (name "guide", content "another
\* document") added, search("guide") ranks guide.md strictly above
\* readme.md: an earlier position and a larger score.
C13_S4NameOutranksContent ==
    (Holds({S4readme, S4guide}) /\ last.op = "search" /\ last.fields = QGuide)
        => /\ ~last.res.panic
           /\ LET g == Rank(last.res.list, "guide.md")
                  r == Rank(last.res.list, "readme.md")
              IN  /\ g # 0
                  /\ r # 0 => (g < r /\ ScoreLess(last.res.list[r][2], last.res.list[g][2]))

\* C14: either backend: a search for a query with at least one token does
\* not panic and returns a list with at most one entry per path, every path
\* of it indexed, no NaN score, the scores in non-increasing order; in the
\* memory backend every indexed document whose score is not NaN has an entry.
C14_SearchResultWellFormed ==
    (last.op = "search" /\ Lexer(last.fields) # <<>>)
        => /\ ~last.res.panic
           /\ LET result == last.res.list
              IN  /\ \A i \in DOMAIN result : result[i][1] \in IndexedPaths
                  /\ \A i, j \in DOMAIN result : result[i][1] = result[j][1] => i = j
                  /\ \A i \in DOMAIN result : ~IsNaN(result[i][2])
                  /\ \A i, j \in DOMAIN result :
                        i < j => result[i][2][1] >= result[j][2][1]
                  /\ backend = "memory" =>
                        \A path \in DOMAIN mem.docs :
                            \/ IsNaN(MemScore(mem, mem.docs[path].fields, Lexer(last.fields)))
                            \/ Rank(result, path) # 0

\* A search returned two documents with different scores, the lower one
\* negative (relational backend), or a document with score 0 beside one
\* with a positive score (memory backend).
C14_Witness ==
    /\ last.op = "search"
    /\ ~last.res.panic
    /\ Len(last.res.list) >= 2
    /\ last.res.list[1][2][1] > last.res.list[2][2][1]
    /\ \/ backend = "sqlite" /\ last.res.list[2][2][1] < 0
       \/ backend = "memory" /\ last.res.list[1][2][1] > 0 /\ last.res.list[2][2][1] = 0

\* C15: either backend, every index state: a search for a query that holds
\* no token (the empty string, whitespace only) returns Ok with an empty
\* list.
C15_EmptyQueryEmptyResult ==
    (last.op = "search" /\ Lexer(last.fields) = <<>>)
        => (~last.res.panic /\ last.res.list = <<>>)

\* A search for the query of three spaces returned the empty list on an
\* index of two documents.
C15_Witness ==
    /\ Searched(<<" ", " ", " ">>)
    /\ last.res.list = <<>>
    /\ Cardinality(IndexedPaths) = 2

\* The stored fields new are the stored fields old with one more occurrence
\* of term in field f, and nothing else changed.
OneMoreOccurrence(old, new, f, term) ==
    /\ DOMAIN new = DOMAIN old
    /\ f \in DOMAIN old
    /\ \A g \in DOMAIN old \ {f} : new[g] = old[g]
    /\ new[f].len = old[f].len + 1
    /\ DOMAIN new[f].tf = DOMAIN old[f].tf \cup {term}
    /\ new[f].tf[term] = GetOr(old[f].tf, term, 0) + 1
    /\ \A other \in DOMAIN old[f].tf \ {term} : new[f].tf[other] = old[f].tf[other]

\* The score search gives path for query in the backend state (m, s): the
\* score of its entry (0 when the relational backend returns no entry).
ScoreIn(m, s, path, query) ==
    IF backend = "memory" THEN MemSearchScores(m, query)[path]
    ELSE GetOr(SqlSearchScores(s, query), path, ScoreZero)

\* C16: either backend: when an add replaces the document at a path by one
\* that holds one more occurrence of a term q in one field and is the same
\* otherwise (the other documents are not changed), the score of the
\* document for a query that contains q is not lower after the add than
\* before it.
C16_ScoreMonotone ==
    [][(last'.op = "add" /\ last'.res = "ok" /\ last'.path \in IndexedPaths
        /\ IndexedPaths' = IndexedPaths)
          => \A query \in Queries : \A q \in Range(Lexer(query)) :
                (\E f \in DOMAIN FieldsAt(last'.path) :
                    OneMoreOccurrence(FieldsAt(last'.path),
                                      FieldsIn(mem', sql', last'.path), f, q))
                  => ~ScoreLess(ScoreIn(mem', sql', last'.path, query),
                                ScoreIn(mem, sql, last'.path, query))]_vars

\* C17: either backend: whenever a request handler holds the mutex, the
\* index it reads holds exactly the documents the index held at startup and
\* every add that returned Ok gave since (an add that is not yet made or
\* that failed shows nothing), and DocumentFrequency counts, for every
\* term, the documents that hold it.
C17_HandlerSeesCompleteAdds ==
    srv.pc = "locked"
        => /\ IndexContents(mem, sql) = idx.applied
           /\ \A term \in Terms : DocFreqOf(term) = Cardinality(PathsContaining(term))

\* C18: memory backend: the snapshot file is written at most once in a run,
\* and not at all by a pass that processed no document; it changes only in a
\* step of the indexer that holds the mutex after the last entry of the
\* directory was visited and processed is at least 1; the file written
\* holds docs and df of the Model, with every document the pass added.
C18_SnapshotOnceAfterPass ==
    /\ [](backend = "memory"
            => /\ idx.writes <= 1
               /\ idx.processed = 0 => (idx.writes = 0 /\ ~idx.save_failed))
    /\ [][(snapshot' # snapshot \/ idx'.writes # idx.writes)
             => /\ backend = "memory"
                /\ idx.pc = "save"
                /\ idx.todo = {}
                /\ idx.processed >= 1
                /\ lock.holder = "indexer"
                /\ idx'.writes = idx.writes + 1
                      => /\ snapshot' = [kind |-> "valid", docs |-> mem.docs, df |-> mem.df]
                         /\ \A path \in DOMAIN idx.applied :
                               /\ path \in DOMAIN snapshot'.docs
                               /\ snapshot'.docs[path].fields = idx.applied[path]]_vars

\* The pass added a.txt and b.txt, the snapshot was written once and holds
\* both documents, and the mutex is free again.
C18_Witness ==
    /\ backend = "memory"
    /\ idx.pc = "done"
    /\ idx.processed = 2
    /\ idx.writes = 1
    /\ snapshot.kind = "valid"
    /\ DOMAIN snapshot.docs = {"a.txt", "b.txt"}
    /\ lock = LockFree

\* C19: after a failed write of the snapshot the mutex is neither held nor
\* poisoned and the server goes on: no handler finds the mutex poisoned, the
\* main thread does not panic, the Model is as it was.
C19_SaveFailureLeavesServerUp ==
    idx.save_failed
        => /\ lock.holder # "indexer"
           /\ ~lock.poisoned
           /\ phase = "running"
           /\ srv.pc # "dead"
           /\ IndexContents(mem, sql) = idx.applied

\* C20: memory backend: entry() with a snapshot file that is absent, or that
\* exists and cannot be opened or parsed, starts with the empty index: the
\* indexer thread is spawned and the server started.
C20_BadSnapshotStartsEmpty ==
    [][(phase = "start" /\ phase' # "start" /\ backend = "memory"
        /\ snapshot.kind \in {"absent", "unreadable", "corrupt"})
          => /\ phase' = "running"
             /\ mem' = MemInit
             /\ idx'.pc = "walk"
             /\ srv'.pc = "accept"]_vars

\* C21: memory backend: when a request handler holds the mutex of a Model
\* that was loaded from a snapshot, avg_field_length and idf_cache are what
\* update_cache computes from the loaded docs and df: every field a document
\* carries has its mean length, every term of df its idf.  This is so also
\* when the pass added nothing.
C21_CachesRecomputedOnLoad ==
    (backend = "memory" /\ snapshot.kind = "valid" /\ srv.pc = "locked")
        => /\ mem.avg_field_length = MemUpdateCache(mem).avg_field_length
           /\ mem.idf_cache = MemUpdateCache(mem).idf_cache
           /\ C8_MemAvgFieldLengthIsMean
           /\ DOMAIN mem.idf_cache = DOMAIN mem.df

\* C22: relational backend: an add_document that returns Err(()) leaves the
\* four tables with exactly the rows they held before the call (the old
\* document at the path included) and no transaction open.
C22_SqlAddIsAtomic ==
    [][(backend = "sqlite" /\ last'.op = "add" /\ last'.res = "fail" /\ calls' = calls + 1)
          => /\ sql'.Documents = sql.Documents
             /\ sql'.DocumentField = sql.DocumentField
             /\ sql'.TermFreq = sql.TermFreq
             /\ sql'.DocFreq = sql.DocFreq
             /\ ~sql'.in_txn]_vars

\* C23: either backend: a step of the indexer on one entry of the tree (a
\* dot file, an entry whose type or metadata cannot be read, a directory, a
\* file under the guard whose requires_reindexing, extraction or add
\* fails) leaves the indexer thread walking, without panic, and every other
\* entry still to visit.
C23_FileFailureDoesNotAbortPass ==
    [][(phase = "running" /\ idx' # idx
        /\ (idx.pc = "file" \/ (idx.pc = "walk" /\ idx.todo # {})))
          => /\ idx'.pc \in {"walk", "file"}
             /\ Cardinality(idx.todo \ idx'.todo) <= 1]_vars

\* C24: either backend: when the indexer, under the guard, handles a file
\* that has no extension, an unsupported extension, or whose text cannot be
\* extracted, add_document is not called: the Model is unchanged, skipped
\* grows by exactly one, processed is unchanged, the guard is dropped and the
\* indexer goes on with the entries still to visit.
C24_UnparsedFileIsSkipped ==
    [][(phase = "running" /\ idx.pc = "file" /\ idx' # idx
        /\ \E f \in idx.cur : \/ f.extension = {}
                              \/ ~(f.extension \subseteq SupportedExtensions)
                              \/ ~f.text_ok)
          => /\ mem' = mem
             /\ sql' = sql
             /\ calls' = calls
             /\ idx'.skipped = idx.skipped + 1
             /\ idx'.processed = idx.processed
             /\ idx'.applied = idx.applied
             /\ idx'.pc = "walk"
             /\ idx'.todo = idx.todo
             /\ lock' = LockFree]_vars

\* c.bin was skipped because no extractor handles it, and the pass went on
\* to add a.txt.
C24_Witness ==
    /\ [path |-> "c.bin", what |-> "not parsed"] \in idx.log
    /\ [path |-> "a.txt", what |-> "added"] \in idx.log
    /\ idx.skipped = 1
    /\ idx.processed = 1
    /\ IndexedPaths = {"a.txt"}

\* The entries of the served trees whose file name begins with '.', valid
\* UTF-8 or not.
DotEntries == { e \in TreeEntries : e.file_name # <<>> /\ Head(e.file_name) = "." }

\* The paths below the directories whose file name begins with '.'.
BelowDotPaths == { x.path : x \in UNION { EntriesBelow(e.entries) : e \in DotEntries } }

\* The paths of the entries whose file name begins with '.' and of what
\* lies below such a directory.
DotPaths == { e.path : e \in DotEntries } \cup BelowDotPaths

\* C25: either backend: an entry whose file name begins with '.' is never
\* handed to requires_reindexing or add_document and never indexed, a dot
\* directory is not descended into (nothing below it is visited), and the
\* step that meets a dot entry adds exactly one to skipped and changes
\* neither the Model nor processed.
C25_DotEntriesAreSkipped ==
    /\ [](/\ \A e \in idx.log : e.path \in DotPaths => e.what = "dot file"
          /\ \A f \in idx.cur : f.path \notin DotPaths
          /\ \A f \in idx.todo : f.path \notin BelowDotPaths
          /\ IndexedPaths \cap { PathDisplay(path) : path \in DotPaths } = {}
          /\ DOMAIN idx.applied \cap { PathDisplay(path) : path \in DotPaths } = {})
    /\ [][\A f \in idx.todo \ idx'.todo :
              f.path \in DotPaths
                  => /\ idx'.skipped = idx.skipped + 1
                     /\ idx'.processed = idx.processed
                     /\ idx'.todo = idx.todo \ {f}
                     /\ idx'.pc = "walk"
                     /\ [path |-> f.path, what |-> "dot file"] \in idx'.log
                     /\ UNCHANGED <<mem, sql, calls, lock>>]_vars

\* C26: either backend: every document the indexer added carries exactly
\* the three fields name, extension and content.
C26_CrawlerPassesThreeFields ==
    \A e \in idx.log :
        e.what = "added"
            => /\ e.path \in DOMAIN idx.applied
               /\ DOMAIN idx.applied[e.path] = {"name", "extension", "content"}

\* C27: the answer to POST /api/search holds the first min(20, n) entries of
\* the n entries search_query returned, in the same order: never more than
\* 20, none of the first 20 dropped or moved, the highest score first.
C27_AnswerIsFirstTwenty ==
    last.op = "respond"
        => LET n == Len(last.fields)
               answer == last.res.list
           IN  /\ Len(answer) = (IF n < 20 THEN n ELSE 20)
               /\ \A i \in 1..Len(answer) : answer[i] = last.fields[i]
               /\ \A i, j \in 1..Len(answer) :
                     i < j => ~ScoreLess(answer[i][2], answer[j][2])

\* C28: the answer to a request follows its method and URL: POST
\* /api/search, GET /api/stats, GET /index.js, GET / and GET /index.html
\* are served and every other combination is answered 404 with the body
\* "404"; a search whose body is not valid UTF-8 is answered 400; a search
\* for which search_query returned Err is answered 500; and the step that
\* answers 404 or 400 neither takes the mutex nor changes the Model.
C28_RequestDispatch ==
    /\ [](last.op = "http"
            => LET req == last.fields
                   r == last.res
                   served == \/ req.method = "POST" /\ req.url = "/api/search"
                             \/ req.method = "GET"
                                  /\ req.url \in {"/api/stats", "/index.js", "/", "/index.html"}
               IN  /\ ~served => (r.status = 404 /\ r.text = "404")
                   /\ served => r.status # 404
                   /\ (served /\ req.method = "GET") => r.status \in {200, 0}
                   /\ r.status = 0 => (r.panic \/ req.url = "/api/stats")
                   /\ (req.method = "POST" /\ req.url = "/api/search" /\ ~req.utf8)
                         => (r.status = 400 /\ r.search = "none")
                   /\ r.search = "err" => (r.status = 500 /\ r.text = "500")
                   /\ r.search = "ok" => r.status \in {200, 500}
                   /\ r.status = 500 => r.text = "500")
    /\ [][(last' # last /\ last'.op = "http" /\ last'.res.status \in {400, 404})
             => /\ lock.holder # "server"
                /\ srv.pc = "accept"
                /\ UNCHANGED <<mem, sql, calls, lock, srv>>]_vars

\* PUT /api/stats was answered 404 while the indexer held the mutex.
C28_Witness ==
    /\ last.op = "http"
    /\ last.fields.method = "PUT"
    /\ last.fields.url = "/api/stats"
    /\ last.res.status = 404
    /\ last.res.text = "404"
    /\ lock.holder = "indexer"

\* C29: either backend, after any adds and removes: the counts GET
\* /api/stats reports are the number of paths at which a document is
\* indexed and the number of terms that have an entry in DocumentFrequency
\* (an entry of 0 included).
C29_StatsCounts ==
    last.op = "stats"
        => /\ last.res.docs_count = Cardinality(IndexedPaths)
           /\ last.res.terms_count =
                 Cardinality({ term \in Terms :
                                 term \in (IF backend = "memory" THEN DOMAIN mem.df
                                           ELSE DOMAIN sql.DocFreq) })

\* The counts were taken after the only document was removed: no document,
\* and its terms still in DocumentFrequency.
C29_Witness ==
    /\ last.op = "stats"
    /\ last.res.docs_count = 0
    /\ last.res.terms_count = 2
    /\ \A term \in Terms : DocFreqOf(term) = 0

\* C30: the same adds and removes made on both backends, from the empty
\* index: each call returns the same on both, and the two agree on the
\* indexed paths, on each path's last_modified in whole seconds, on the
\* number of documents, and on DocumentFrequency[term] for every term,
\* where an absent entry counts as 0.
C30_BackendsAgree ==
    backend = "both"
        => /\ last.op \in {"add", "remove"} => last.res.mem = last.res.sql
           /\ DOMAIN mem.docs = { d.path : d \in sql.Documents }
           /\ \A d \in sql.Documents :
                 d.path \in DOMAIN mem.docs
                     => AsSecs(mem.docs[d.path].last_modified) = d.last_modified
           /\ Cardinality(DOMAIN mem.docs) = Cardinality(sql.Documents)
           /\ \A term \in Terms : GetOr(mem.df, term, 0) = GetOr(sql.DocFreq, term, 0)

\* C33: a handler holds the mutex only while it queries the Model: when it
\* serializes and sends the answer the server does not hold the mutex, so
\* the indexer can take it.
C33_GuardDroppedBeforeAnswer ==
    srv.pc = "respond" => lock.holder # "server"

\* C32: the indexer does not hold the mutex while the extractor reads a
\* file: a step in which parse_entire_file_by_extension runs (the file is
\* then logged as added, as not parsed, or its add failed) starts in a state
\* where the indexer holds no guard.
C32_ExtractionOutsideGuard ==
    [][(\E e \in idx'.log \ idx.log : e.what \in {"added", "not parsed", "add failed"})
          => lock.holder # "indexer"]_vars

\* C35: either backend: a step of the pass on a regular file that is not a
\* dot file adds one to exactly one of skipped and processed; when
\* requires_reindexing returned false it is skipped and neither the
\* extractor nor add_document ran (the Model is unchanged); processed grows
\* only in a step whose add_document returned Ok; and processed is the
\* number of files logged as added.
C35_OneCounterPerFile ==
    /\ [][\A e \in idx'.log \ idx.log :
              e.what \notin {"dot file", "directory"}
                  => /\ idx'.skipped + idx'.processed = idx.skipped + idx.processed + 1
                     /\ idx'.skipped \in {idx.skipped, idx.skipped + 1}
                     /\ e.what = "ignored"
                           => (idx'.skipped = idx.skipped + 1 /\ UNCHANGED <<mem, sql, calls>>)
                     /\ idx'.processed # idx.processed => e.what = "added"]_vars
    /\ [](idx.processed = Cardinality({ e \in idx.log : e.what = "added" }))

\* C36: no thread asks for the mutex while it holds it, and the two threads
\* are never both blocked on it: the indexer holds the mutex exactly while
\* it handles a file under the guard or writes the snapshot, never when it
\* is about to visit an entry, to descend into a directory or to lock for
\* the snapshot; the server holds it exactly from lock() to the drop of the
\* handler's guard, never when a handler stands before lock(); and when
\* both threads stand before lock() the mutex is free.
C36_NoLockWhileHolding ==
    /\ lock.holder = "indexer" <=> idx.pc \in {"file", "save"}
    /\ idx.pc = "walk" => lock.holder # "indexer"
    /\ lock.holder = "server" => srv.pc \in {"locked", "respond"}
    /\ srv.pc \in {"accept", "wait"} => lock.holder # "server"
    /\ srv.pc = "locked" => lock.holder = "server"
    /\ (phase = "running" /\ idx.pc = "walk" /\ srv.pc = "wait" /\ ~lock.poisoned)
          => lock.holder = "none"

\* The indexer descended into sub and added sub/b.txt and a.txt, holding no
\* guard in between, and now holds the mutex for the snapshot while a
\* handler waits at lock().
C36_Witness ==
    /\ [path |-> "sub", what |-> "directory"] \in idx.log
    /\ [path |-> "sub/b.txt", what |-> "added"] \in idx.log
    /\ [path |-> "a.txt", what |-> "added"] \in idx.log
    /\ idx.pc = "save"
    /\ lock.holder = "indexer"
    /\ srv.pc = "wait"

RECURSIVE VisitedPaths(_)
\* The paths the pass of the tree dir visits: its entries and what the pass
\* visits of each of its directories that dot_file does not skip.
VisitedPaths(dir) ==
    { e.path : e \in dir }
      \cup UNION { VisitedPaths(e.entries) :
                     e \in { x \in dir : x.is_dir /\ ~DotFile(x) } }

\* C31: a run without failing operation, under fair scheduling: the
\* indexer thread ends its pass, and has then visited every entry of the
\* tree outside the dot directories exactly once (each is logged once, each
\* file that is not a dot file is counted once as skipped or processed);
\* every request whose handler stands before lock() is answered; and the
\* server keeps running when the indexer has ended.
C31_PassEndsAndRequestsAnswered ==
    /\ <>(idx.pc = "done")
    /\ [](idx.pc = "done"
            => /\ idx.todo = {}
               /\ { e.path : e \in idx.log } = VisitedPaths(idx.tree)
               /\ Cardinality(idx.log) = Cardinality(VisitedPaths(idx.tree))
               /\ idx.skipped + idx.processed
                     = Cardinality({ e \in idx.log : e.what # "directory" })
               /\ phase = "running"
               /\ srv.pc \notin {"off", "dead"})
    /\ (srv.pc = "wait") ~> (srv.pc = "accept" /\ last.op = "http")
    /\ [](idx.pc # "panicked" /\ phase # "exited")

\* The pass over a.txt and the directory sub has ended with both files
\* added, and the search that came in meanwhile was answered with both.
C31_Witness ==
    /\ idx.pc = "done"
    /\ { e.path : e \in idx.log } = {"a.txt", "sub", "sub/b.txt"}
    /\ idx.processed = 2
    /\ srv.pc = "accept"
    /\ last.op = "http"
    /\ last.res.search = "ok"
    /\ Len(last.res.list) = 1

RECURSIVE AggregatedF(_, _, _, _)
\* F of a token in a document: the sum, over the fields of todo in which the
\* token occurs, of w(f) * normalized tf, given the average field lengths.
AggregatedF(doc_fields, avg, token, todo) ==
    IF todo = {} THEN R(0)
    ELSE LET f == CHOOSE x \in todo : TRUE
             tf == GetOr(doc_fields[f].tf, token, 0)
             len == doc_fields[f].len
             rest == AggregatedF(doc_fields, avg, token, todo \ {f})
         IN  IF tf = 0 THEN rest
             ELSE RAdd(rest, RMul(weights_for_fields(f),
                                  NormTf(tf, len, GetOr(avg, f, R(len)), f)))

\* The average field lengths and the idf the selected backend ranks with.
RankingAvg ==
    IF backend = "memory" THEN mem.avg_field_length ELSE SqlUpdateCache(sql).avgdl

RankingIdf(token) ==
    IF backend = "memory"
    THEN GetOr(mem.idf_cache, token, <<Cardinality(DOMAIN mem.docs), 1>>)
    ELSE GetOr(SqlUpdateCache(sql).idf_cache, token, ZeroF32)

RECURSIVE SaturatedOnceScore(_, _)
\* The sum over the tokens of idf * F * (k1 + 1) / (F + k1), the saturation
\* applied once to the aggregated F of each token.
SaturatedOnceScore(path, tokens) ==
    IF tokens = <<>> THEN ScoreZero
    ELSE LET token == tokens[Len(tokens)]
             F == AggregatedF(FieldsAt(path), RankingAvg, token, DOMAIN FieldsAt(path))
             before == SaturatedOnceScore(path, SubSeq(tokens, 1, Len(tokens) - 1))
         IN  IF F = R(0) THEN before
             ELSE ScoreAdd(before, IdfTimes(RankingIdf(token), TfComponent(F)))

\* C34: in either backend every score a search returns is the sum, over the
\* tokens of the query, of idf * F * (k1 + 1) / (F + k1) with F the sum over
\* the fields of the document of w(f) * normalized tf: a token that occurs in
\* two fields is saturated once on the sum, and a field in which it does not
\* occur adds nothing.
C34_SaturatedOnceOnAggregate ==
    (last.op = "search" /\ ~last.res.panic)
        => \A i \in DOMAIN last.res.list :
               last.res.list[i][2]
                 = SaturatedOnceScore(last.res.list[i][1], Lexer(last.fields))

===========================================================================
